---- MODULE Spec2Model ----
(***************************************************************************)
(* sonosmqtt: the Player request multiplexer (src/player.go) and the MQTT  *)
(* publish cache of the App (src/app.go, src/unnamed/part_008).            *)
(*                                                                         *)
(* Critical sections of playerImpl's RWMutex are single atomic actions;    *)
(* everything the code does outside the lock (callback invocation, the     *)
(* write to the websocket, the dial) is a separate step, so that timer     *)
(* goroutines, senders, the reader goroutine and the opener interleave as  *)
(* they do in the program.                                                 *)
(***************************************************************************)
EXTENDS Integers, Sequences, FiniteSets, TLC

\* ------------------------------------------------------------------ bounds
MaxCalls == 2
MaxTransports == 1
MaxEvents == 1
MaxRequests == 3
MaxGroups == 2
MaxEquivGroups == 1
MaxTasks == 2
MaxDials == 2

\* --------------------------------------------------------------- constants
InitialCmdId == 1
NilWs == 0
NilHandler == "nil"
AppHandler == "app"
PlayerId == "PID"
CallIds == 1..MaxCalls
TransportIds == 1..MaxTransports

VARIABLES
  \* playerImpl fields
  websocket, eventHandler, cmdId, cmdCallbackMap,
  \* time.Timer of each call and its handleCmdTimeout goroutine
  timer, tpc, tcb,
  \* websocket clients and their read goroutines
  wsState, rpc, rframe, rhandler, rcb, rpending,
  \* the task calling InitWebsocketConnection / CloseWebsocketConnection
  opc, ows,
  \* observations
  calls, callRet, ckey, invoked, events, sent, transports,
  \* App: which of the two revisions of the App in the source is running,
  \* its publish cache (topic -> payload in src/app.go, topic -> true in
  \* src/unnamed/part_008) and what the broker was sent
  revision, mqttCache, brokerLast, brokerCount, lastBody, req, cleanup,
  \* group model functions: the GroupsResponses given to getGroupMap, the
  \* models it returned and what groupsAreCloseEnoughForMe said of them
  respA, respB, modelA, modelB, closeEnough, gpc,
  \* the last getPlayerForNamespace call: id, namespace and what it returned
  lookup,
  \* App (src/unnamed/part_008): configuration, state machine, current and
  \* staged group model, the player the groups namespace is subscribed on,
  \* the websocket of each player of the current model, the senders blocked
  \* on errorChannel, and the message last handled with its publishes
  config, currentState, groups, groupUpdate, groupsSource, conn, errorChannel,
  msg, pubs, search,
  \* InitWebsocketConnection called from several goroutines: where each
  \* caller is, the client its hook call returned, what the call returned,
  \* the clients made so far and their number
  ipc, iws, iret, tstate, dials,
  \* discoverPlayer and the Searching case of App.run: the configured
  \* household id, where the loop is, the last round (the scan, the
  \* candidate taken, the player built from it, whether /groups was fetched
  \* with it and whether the round ended in the sleep) and the households of
  \* the candidates taken so far
  hhConfig, discState, scanned, accepted,
  \* readGoroutines feeding App.run: where each reader is, the number of
  \* frames it has read, the OnEvent calls blocked on responseChannel, where
  \* the loop is, the message it received and those handleResponse was
  \* given, in order
  rdr, nread, blocked, loopState, received, handledLog,
  \* the group maps the App has made (by object), the maps app.groups and
  \* app.groupUpdate point to, groupsLock, where the run loop is in the
  \* switch-over, every map app.groups ever pointed to with its content at
  \* that time, and the web interface calls: position, the map being
  \* ranged over, the groups copied so far
  heap, groupsRef, updateRef, groupsLock, swapPc, publishedMaps, qpc, qref, qseen,
  \* one websocketImpl and its player: running, runningLock, whether
  \* sendChan is closed, whether the connection is up, where the write and
  \* the read goroutine are, the player's mutex and websocket field, and
  \* the tasks calling into the player: where each is, which goroutine it
  \* runs on and which call it makes
  running, runningLock, chanClosed, connUp, wpc, rgo, pmu, pws, spc, origin, sop,
  \* what handleResponse hands to RemoveStaleTopics for the models of respA
  \* and respB, and the prefixes RemoveStaleTopics builds from it
  staleIds,
  \* the /api/v1/wstest requests being served: where each handler is, how
  \* many HTTP responses it has written, where the callback it passed to
  \* CommandOverWebsocket is, and the goroutine that invoked the callback
  hpc, written, cbpc, cbfrom

playerVars == <<websocket, eventHandler, cmdId, cmdCallbackMap, timer, tpc, tcb,
                wsState, rpc, rframe, rhandler, rcb, rpending,
                opc, ows, calls, callRet, ckey, invoked, events, sent, transports>>
groupVars == <<respA, respB, modelA, modelB, closeEnough, gpc, lookup>>
supVars == <<config, currentState, groups, groupUpdate, groupsSource, conn,
             errorChannel, msg, pubs, search>>
initVars == <<ipc, iws, iret, tstate, dials>>
discVars == <<hhConfig, discState, scanned, accepted>>
chanVars == <<rdr, nread, blocked, loopState, received, handledLog>>
invVars == <<heap, groupsRef, updateRef, groupsLock, swapPc, publishedMaps, qpc, qref, qseen>>
wsVars == <<running, runningLock, chanClosed, connUp, wpc, rgo, pmu, pws, spc, origin, sop>>
cmpVars == <<staleIds>>
webVars == <<hpc, written, cbpc, cbfrom>>
taskVars == <<chanVars, invVars, wsVars, cmpVars, webVars>>
extVars == <<discVars, taskVars>>
appVars == <<revision, mqttCache, brokerLast, brokerCount, lastBody, req, cleanup, groupVars,
             supVars, initVars, extVars>>
vars == <<playerVars, appVars>>

\* ------------------------------------------------------------ pure helpers

\* fmt.Sprintf("%d", n): the decimal digits of n, most significant first.
RECURSIVE FmtD(_)
FmtD(n) == IF n < 10 THEN <<n>> ELSE Append(FmtD(n \div 10), n % 10)

\* The number a decimal digit string denotes (used only to compare cmdIds).
RECURSIVE AtoI(_)
AtoI(s) == IF Len(s) = 0 THEN 0
           ELSE 10 * AtoI(SubSeq(s, 1, Len(s) - 1)) + s[Len(s)]

NextCmdIdStuck(n) == n
\* p.cmdId = p.cmdId + 1.  cmdId is a uint32 that wraps after 2^32 - 1, a
\* value no run of at most MaxCalls calls comes near.
NextCmdId(n) == n + 1

EmptyMap == <<>>
MapHas(m, k) == k \in DOMAIN m
MapPut(m, k, e) == [x \in (DOMAIN m) \cup {k} |-> IF x = k THEN e ELSE m[x]]
MapDeleteKeep(m, k) == m
\* delete(p.cmdCallbackMap, key)
MapDelete(m, k) == [x \in (DOMAIN m) \ {k} |-> m[x]]

TimerStopNoop(st) == st
\* timer.Stop(): an armed timer never fires; a timer that already fired is
\* untouched (go 1.17: the value stays in timer.C).
TimerStop(st) == IF st = "armed" THEN "stopped" ELSE st

\* The synthetic failure responses
TimeoutResponse == [src |-> "timeout", CmdId |-> <<>>, Success |-> FALSE,
                    Response |-> "Command timed out", Type |-> "none", Body |-> ""]
ClosedResponse == [src |-> "close", CmdId |-> <<>>, Success |-> FALSE,
                   Response |-> "The websocket has ceased to be.  It is a former websocket.",
                   Type |-> "none", Body |-> ""]

\* ------------------------------------------------------------ wire frames
CmdIdStrs == {<<>>} \cup {FmtD(n) : n \in 1..MaxCalls}
RawBodies == {"{ \"data\": 1 }", "{\"data\":1}"}
ResponseFrames == [kind : {"array"}, len : {2}, CmdId : CmdIdStrs \ {<<>>},
                   Type : {"none"}, body : RawBodies]
EventFrames == [kind : {"array"}, len : {2}, CmdId : {<<>>},
                Type : {"fakeEvent"}, body : RawBodies]
GoodFrames == ResponseFrames \cup EventFrames
BadFrames == {[kind |-> "text", len |-> 0, CmdId |-> <<>>, Type |-> "", body |-> ""],
              [kind |-> "array", len |-> 3, CmdId |-> <<>>, Type |-> "", body |-> ""],
              [kind |-> "array", len |-> 1, CmdId |-> <<>>, Type |-> "", body |-> ""],
              [kind |-> "array, headers not an object", len |-> 2, CmdId |-> <<>>,
               Type |-> "", body |-> "{\"data\":1}"]}
RawFrames == GoodFrames \cup BadFrames

\* json.Marshal(parsedArray[1]): the body is re-encoded, which drops
\* insignificant white space.
Remarshal(body) == IF body = "{ \"data\": 1 }" THEN "{\"data\":1}" ELSE body

\* webSocketMessageFromRawBytes: an error unless the frame is a JSON array
\* of exactly two elements whose first decodes into the headers.
ParseOk(f) == f.kind = "array" /\ f.len = 2

\* WebsocketResponse.FromRawBytes on a frame that parses
Parse(f) == [src |-> "response", CmdId |-> f.CmdId, Success |-> TRUE,
             Response |-> "", Type |-> f.Type, Body |-> Remarshal(f.body)]

\* FromRawBytes returned an error
ParseError == [src |-> "error", CmdId |-> <<>>, Success |-> FALSE,
               Response |-> "", Type |-> "", Body |-> ""]

NoResponse == [src |-> "none", CmdId |-> <<>>, Success |-> FALSE,
               Response |-> "", Type |-> "", Body |-> ""]

\* ------------------------------------------------------------------- Init
PlayerInit ==
  /\ websocket = NilWs
  /\ eventHandler = NilHandler
  /\ cmdId = InitialCmdId
  /\ cmdCallbackMap = EmptyMap
  /\ timer = [k \in CallIds |-> "none"]
  /\ tpc = [k \in CallIds |-> "none"]
  /\ tcb = [k \in CallIds |-> 0]
  /\ wsState = [t \in TransportIds |-> "unborn"]
  /\ rpc = [t \in TransportIds |-> "none"]
  /\ rframe = [t \in TransportIds |-> NoResponse]
  /\ rhandler = [t \in TransportIds |-> NilHandler]
  /\ rcb = [t \in TransportIds |-> 0]
  /\ rpending = [t \in TransportIds |-> {}]
  /\ opc = "idle"
  /\ ows = NilWs
  /\ calls = 0
  /\ callRet = [k \in CallIds |-> "none"]
  /\ ckey = [k \in CallIds |-> <<>>]
  /\ invoked = [k \in CallIds |-> <<>>]
  /\ events = <<>>
  /\ sent = <<>>
  /\ transports = 0

\* ------------------------------------------------------- topics, payloads
\* A topic is the list of its "/"-separated segments.
BaseTopic == "sonos"
Ids == {"P1", "P10"}
Types == {"groups", "x"}
\* fmt.Sprintf("%s/player/%s/%s", base, id, type) and its group and
\* household forms (PublishEventToAllTopics)
PlayerTopic(id, type) == <<BaseTopic, "player", id, type>>
GroupTopic(id, type) == <<BaseTopic, "group", id, type>>
HouseholdTopic(type) == <<BaseTopic, type>>
\* the same with the "/v1/events" infix of RemoveStaleTopics' prefixes,
\* which is what a household event of type "v1/events/player/<id>/x" gets
EventsPlayerTopic(id, type) == <<BaseTopic, "v1", "events", "player", id, type>>
EventsGroupTopic(id, type) == <<BaseTopic, "v1", "events", "group", id, type>>
Topics == {PlayerTopic("P1", "x"), GroupTopic("P1", "x"), HouseholdTopic("groups"),
           EventsPlayerTopic("P1", "x"), EventsPlayerTopic("P10", "x"),
           EventsGroupTopic("P1", "x")}
Bodies == {"{\"a\":1}", "{\"a\":2}"}
EmptyPayload == ""
NoPayload == "<absent>"

\* strings.HasPrefix on one segment, for the ids of the model
StrHasPrefix(str, pre) == str = pre \/ (str = "P10" /\ pre = "P1")

\* strings.HasPrefix(topic, prefix) where prefix ends inside (or at the end
\* of) its last segment
HasPrefix(topic, prefix) ==
  /\ Len(topic) >= Len(prefix)
  /\ \A i \in 1..(Len(prefix) - 1) : topic[i] = prefix[i]
  /\ StrHasPrefix(topic[Len(prefix)], prefix[Len(prefix)])

\* fmt.Sprintf("%s/v1/events/player/%s", base, player) and the group form
PlayerPrefix(id) == <<BaseTopic, "v1", "events", "player", id>>
GroupPrefix(id) == <<BaseTopic, "v1", "events", "group", id>>

NoRequest == [n |-> 0, topic |-> <<>>, body |-> NoPayload, ok |-> TRUE]
NoPublish == [payload |-> NoPayload, qos |-> 0, retained |-> FALSE]

\* src/app.go keeps the payloads and checks them before publishing;
\* src/unnamed/part_008 (the App that drives playerImpl) keeps a flag per topic.
RevPayloadCache == "app.go"
\* the value true of a map[string]bool entry
CacheFlag == "true"
RevFlagCache == "part_008"
Revisions == {RevPayloadCache, RevFlagCache}

\* ---------------------------------------------------------- group models
\* A sonos.GroupsResponse: the flat player list (id -> name) and the list of
\* groups, each with its id, its coordinator id and its member ids.
GroupIdStrs == {"G1", "G2"}
Names == {"kitchen", "den"}
SonosGroups == [Id : GroupIdStrs, CoordinatorId : Ids, PlayerIds : SUBSET Ids]
EmptyResponse == [Players |-> <<>>, Groups |-> <<>>]

RECURSIVE SeqsUpTo(_, _)
SeqsUpTo(S, n) == IF n = 0 THEN {<<>>}
                  ELSE SeqsUpTo(S, n - 1) \cup
                       {Append(q, x) : q \in {r \in SeqsUpTo(S, n - 1) : Len(r) = n - 1},
                                       x \in S}

\* Responses for getGroupMap: any part of the players may be missing from
\* the flat list.
Responses == {[Players |-> [id \in ps |-> "kitchen"], Groups |-> gs] :
                ps \in SUBSET Ids, gs \in SeqsUpTo(SonosGroups, MaxGroups)}
\* Responses for the comparison of two models: every player is listed, the
\* names vary.
EquivResponses == {[Players |-> [id \in Ids |-> n], Groups |-> gs] :
                     n \in Names, gs \in SeqsUpTo(SonosGroups, MaxEquivGroups)}

\* NewInternalPlayerFromSonosPlayer(p, hhid, ""): groupId and coordinatorId
\* are empty until a group claims the player.
NewInternalPlayerFromSonosPlayer(id, name) ==
  [PlayerId |-> id, Name |-> name, groupId |-> "", coordinatorId |-> ""]

\* playerImpl.SetCoordinator
SetCoordinator(player, coordinator, groupId) ==
  [player EXCEPT !.coordinatorId = coordinator, !.groupId = groupId]

CoordinatorAssumed(players, id) == TRUE
\* coordinator, ok := allPlayers[group.CoordinatorId]
CoordinatorKnown(players, id) == id \in DOMAIN players

\* The loop over groupsResponse.Groups.  Player objects are shared between
\* allPlayers and the groups (Go pointers), so a group holds the ids of its
\* coordinator and members and `players` holds the objects.
RECURSIVE ProcessGroups(_, _, _)
ProcessGroups(gs, allPlayers, allGroups) ==
  IF gs = <<>> THEN [players |-> allPlayers, groups |-> allGroups]
  ELSE LET g == Head(gs) IN
       IF CoordinatorKnown(allPlayers, g.CoordinatorId)
       THEN LET members == g.PlayerIds \cap DOMAIN allPlayers
                tagged == [id \in DOMAIN allPlayers |->
                             IF id = g.CoordinatorId \/ id \in members
                             THEN SetCoordinator(allPlayers[id], g.CoordinatorId, g.Id)
                             ELSE allPlayers[id]]
            IN ProcessGroups(Tail(gs), tagged,
                             MapPut(allGroups, g.CoordinatorId,
                                    [Coordinator |-> g.CoordinatorId, Players |-> members]))
       ELSE ProcessGroups(Tail(gs), allPlayers, allGroups)

\* getGroupMap: the groups indexed by coordinator id, and the player objects
\* they point to.  It never returns an error.
getGroupMap(resp) ==
  ProcessGroups(resp.Groups,
                [id \in DOMAIN resp.Players |->
                   NewInternalPlayerFromSonosPlayer(id, resp.Players[id])],
                EmptyMap)

NoModel == [players |-> <<>>, groups |-> <<>>]

SameLenAlways(x, y) == TRUE
\* len(a) != len(b), len(group.Players) != len(groupMatch.Players)
SameLen(x, y) == Cardinality(x) = Cardinality(y)

HasPlayerAlways(group, pid) == TRUE
\* _, ok := groupMatch.Players[id]
HasPlayer(group, pid) == pid \in group.Players

\* groupsAreCloseEnoughForMe(a, b) on the group maps of two models
groupsAreCloseEnoughForMe(a, b) ==
  IF ~SameLen(DOMAIN a, DOMAIN b) THEN FALSE
  ELSE \A id \in DOMAIN a :
         /\ id \in DOMAIN b
         /\ SameLen(a[id].Players, b[id].Players)
         /\ \A pid \in a[id].Players : HasPlayer(b[id], pid)

\* group.Coordinator.GetGroupId()
GroupIdOf(m, id) == m.players[m.groups[id].Coordinator].groupId

\* missingGroups(old, new): the group id of every old group whose
\* coordinator is gone or now leads a group with another id
missingGroups(old, new) ==
  {GroupIdOf(old, id) : id \in {c \in DOMAIN old.groups :
      ~(c \in DOMAIN new.groups /\ GroupIdOf(new, c) = GroupIdOf(old, c))}}

\* getPlayers(groups): the ids of all members of all groups
getPlayers(m) == UNION {m.groups[id].Players : id \in DOMAIN m.groups}

\* missingPlayers(oldGroups, newGroups)
missingPlayers(old, new) == getPlayers(old) \ getPlayers(new)

NoVerdict == [ab |-> FALSE, ba |-> FALSE, aa |-> FALSE]

\* var playerTargetedCommands (src/webinterface.go)
playerTargetedCommands == {"settings", "playerVolume"}
Namespaces == playerTargetedCommands \cup {"playback"}
\* return nil, ""
NotFound == [player |-> "", path |-> <<>>]
NoLookup == [id |-> "", namespace |-> "", result |-> NotFound]

\* getPlayerForNamespace(groupMap, id, namespace): the loop stops at the
\* first group (in map order) that has id among its players, so every such
\* group gives one possible result.  The path is built from the PlayerId
\* or the GroupId field of the player returned.
getPlayerForNamespace(m, id, namespace) ==
  LET holders == {c \in DOMAIN m.groups : id \in m.groups[c].Players} IN
  IF holders = {}
  THEN {NotFound}
  ELSE {IF namespace \in playerTargetedCommands
        THEN [player |-> id, path |-> <<"players", m.players[id].PlayerId>>]
        ELSE [player |-> m.groups[c].Coordinator,
              path |-> <<"groups", m.players[m.groups[c].Coordinator].groupId>>] :
          c \in holders}

GroupInit ==
  /\ respA = EmptyResponse
  /\ respB = EmptyResponse
  /\ modelA = NoModel
  /\ modelB = NoModel
  /\ closeEnough = NoVerdict
  /\ lookup = NoLookup
  /\ gpc = "idle"

\* -------------------------------------------------------- App supervisor
\* The configurations main hands to NewApp
ForgetFanOut(cfg) == cfg
\* loadConfigFile: simplify switches fanout on
loadConfigFile(cfg) == [cfg EXCEPT !.FanOut = cfg.FanOut \/ cfg.Simplify]
Configs == {loadConfigFile(c) : c \in [FanOut : BOOLEAN, Simplify : BOOLEAN]}

\* The GroupsResponses the household answers with, by the name their JSON
\* text goes under in a message body
HouseholdResponse(name) ==
  [Players |-> IF name = "R3" THEN [id \in {"P1"} |-> "kitchen"]
               ELSE [id \in Ids |-> "kitchen"],
   Groups |->
     IF name = "R1"
     THEN <<[Id |-> "G1", CoordinatorId |-> "P1", PlayerIds |-> {"P1", "P10"}]>>
     ELSE IF name = "R2"
     THEN <<[Id |-> "G1", CoordinatorId |-> "P1", PlayerIds |-> {"P1"}],
            [Id |-> "G2", CoordinatorId |-> "P10", PlayerIds |-> {"P10"}]>>
     ELSE <<[Id |-> "G1", CoordinatorId |-> "P1", PlayerIds |-> {"P1"}]>>]
HouseholdResponses == {"R1", "R2", "R3"}

\* Message bodies are lists of strings: the JSON text of a GroupsResponse,
\* of a playback status, of something that does not parse, and what the
\* simplifiers and getPlayersJSONFromGroupMap make of them.
JunkBody == <<"junk">>
PlaybackBody == <<"playback">>

\* json.Unmarshal(msg.BodyJSON, &groupsResponse) succeeds
IsGroupsBody(body) == Len(body) = 1 /\ body[1] \in HouseholdResponses

NoMsg == [playerId |-> "", Response |-> "", Type |-> "", GroupId |-> "", Body |-> <<>>]

\* The enumerations of a set in every order (a Go map is walked in any order)
RECURSIVE Orders(_)
Orders(S) == IF S = {} THEN {<<>>}
             ELSE UNION {{<<x>> \o q : q \in Orders(S \ {x})} : x \in S}

\* What mDNS reported in one scan window: per device, whether its household
\* id could be read and passes the configured filter, and whether its info
\* URL and the GET of /info worked
Devices == [hhidOk : BOOLEAN, infoOk : BOOLEAN]
Windows == SUBSET Devices
AcceptAny(device) == TRUE
\* discoverPlayer: none of the three "continue" branches is taken
Acceptable(device) == device.hhidOk /\ device.infoOk
\* discoverPlayer(window) != nil
PlayerFound(window) == \E device \in window : Acceptable(device)
\* The round of Searching in progress: the window it scanned and whether
\* the loop is in time.Sleep(10 s)
NoSearch == [window |-> {}, sleeping |-> FALSE]

SupInit ==
  /\ config = [FanOut |-> FALSE, Simplify |-> FALSE]
  /\ currentState = "Idle"
  /\ groups = NoModel
  /\ groupUpdate = NoModel
  /\ groupsSource = ""
  /\ conn = [id \in Ids |-> "none"]
  /\ errorChannel = {}
  /\ msg = NoMsg
  /\ pubs = <<>>
  /\ search = NoSearch

\* The goroutines that call InitWebsocketConnection on one player, the
\* clients the hook can make, and the handler each caller passes
Tasks == 1..MaxTasks
DialIds == 1..MaxDials
SinkOf(task) == IF task = 1 THEN AppHandler ELSE "other"

CallersInit ==
  /\ ipc = [task \in Tasks |-> "idle"]
  /\ iws = [task \in Tasks |-> NilWs]
  /\ iret = [task \in Tasks |-> "none"]
  /\ tstate = [t \in DialIds |-> "unborn"]
  /\ dials = 0

\* ------------------------------------------------------------ discovery
MaxScan == 2
MaxRounds == 3

Households == {"HH1", "HH2"}
NoHhid == "<none>"
\* config.Sonos.HouseholdId: empty when no household is configured
HouseholdConfigs == {"", "HH1"}

\* One mDNS response: its hhid TXT record (or none), and how far the way
\* to a PlayerInfoResponse gets: no info record, the GET of /info fails,
\* the body does not unmarshal, or all is well.
InfoOutcomes == {"missing", "failed", "unparsable", "ok"}
Candidates == [hhid : Households \cup {NoHhid}, info : InfoOutcomes]
\* sonos.ScanForPlayersViaMDNS(scanTime): the responses of one window
Scans == SeqsUpTo(Candidates, MaxScan)

\* hhid, err := mdnsDevice.GetHouseholdId() succeeded and
\* len(HouseholdId) != 0 && hhid != HouseholdId does not hold
HouseholdPasses(cfg, device) ==
  device.hhid # NoHhid /\ (cfg = "" \/ device.hhid = cfg)

\* GetInfoUrl and doRESTWithApiKey(infoUrl, GET) both returned no error
InfoFetched(device) == device.info \in {"unparsable", "ok"}

\* var info sonos.PlayerInfoResponse; json.Unmarshal(body, &info): a body
\* that does not parse is logged and info stays the zero value
InfoResponse(device) ==
  IF device.info = "ok"
  THEN [PlayerId |-> "P1", HouseholdId |-> device.hhid, RestUrl |-> "https://p1:1443/api"]
  ELSE [PlayerId |-> "", HouseholdId |-> "", RestUrl |-> ""]

NewInternalPlayerFromInfoResponse(info) ==
  [PlayerId |-> info.PlayerId, householdId |-> info.HouseholdId, restUrl |-> info.RestUrl]

\* return nil
NilPlayer == [PlayerId |-> "<nil>", householdId |-> "<nil>", restUrl |-> "<nil>"]

\* App.discoverPlayer: the first response of the scan that passes every
\* continue is turned into a player; index 0 and nil when none does.
discoverPlayer(cfg, scan) ==
  LET hits == {i \in 1..Len(scan) : HouseholdPasses(cfg, scan[i]) /\ InfoFetched(scan[i])}
  IN IF hits = {}
     THEN [index |-> 0, player |-> NilPlayer]
     ELSE LET first == CHOOSE i \in hits : \A j \in hits : i <= j
          IN [index |-> first,
              player |-> NewInternalPlayerFromInfoResponse(InfoResponse(scan[first]))]

NoRound == [scan |-> <<>>, index |-> 0, player |-> NilPlayer,
            fetched |-> FALSE, slept |-> FALSE]

DiscInit ==
  /\ discState = "Idle"
  /\ scanned = NoRound
  /\ accepted = <<>>

\* --------------------------------------------- readers and the run loop
MaxFrames == 2

FrameNos == 1..MaxFrames
NoEvent == [playerId |-> "", frame |-> 0]

\* NewWebSocket has started a readGoroutine for every player; App.run is
\* still in CreateWebsockets
ChanInit ==
  /\ rdr = [id \in Ids |-> "read"]
  /\ nread = [id \in Ids |-> 0]
  /\ blocked = {}
  /\ loopState = "CreateWebsockets"
  /\ received = NoEvent
  /\ handledLog = <<>>

\* ---------------------------------------------- group maps and readers
MaxObjects == 4

NilMap == 0
Objects == 1..MaxObjects

\* NewApp: groups and groupUpdate are two empty maps, the lock is free
InvInit ==
  /\ heap = [o \in Objects |-> NoModel]
  /\ groupsRef = 1
  /\ updateRef = 2
  /\ groupsLock = [writer |-> FALSE, readers |-> {}]
  /\ swapPc = "run"
  /\ publishedMaps = [o \in {1} |-> NoModel]
  /\ qpc = [task \in Tasks |-> "idle"]
  /\ qref = [task \in Tasks |-> NilMap]
  /\ qseen = [task \in Tasks |-> <<>>]

\* ------------------------------------------------ websocket goroutines
MaxSenders == 2
MaxHandlers == 3

Senders == 1..MaxSenders
Handlers == 1..MaxHandlers
NoTask == 0
FreeMutex == [writer |-> NoTask, readers |-> {}]

\* NewWebSocket has dialled and started both goroutines, and
\* InitWebsocketConnection has stored the websocket in the player
WsInit ==
  /\ running = TRUE
  /\ runningLock = [writer |-> FALSE, readers |-> {}]
  /\ chanClosed = FALSE
  /\ connUp = TRUE
  /\ wpc = "select"
  /\ rgo = "read"
  /\ pmu = FreeMutex
  /\ pws = "set"
  /\ spc = [s \in Senders |-> "idle"]
  /\ origin = [s \in Senders |-> "none"]
  /\ sop = [s \in Senders |-> "none"]

NoStale == [players |-> {}, groups |-> {}, prefixes |-> {}]

\* no /api/v1/wstest request is being served
WebInit ==
  /\ hpc = [h \in Handlers |-> "idle"]
  /\ written = [h \in Handlers |-> 0]
  /\ cbpc = [h \in Handlers |-> "none"]
  /\ cbfrom = [h \in Handlers |-> "none"]

TasksInit == ChanInit /\ InvInit /\ WsInit /\ staleIds = NoStale /\ WebInit

ExtInit ==
  /\ DiscInit
  /\ hhConfig = ""
  /\ TasksInit

PublishInit ==
  /\ mqttCache = EmptyMap
  /\ brokerLast = [t \in Topics |-> NoPublish]
  /\ brokerCount = [t \in Topics |-> 0]
  /\ lastBody = [t \in Topics |-> NoPayload]
  /\ req = NoRequest
  /\ cleanup = <<>>

AppInit ==
  /\ PublishInit
  /\ CallersInit
  /\ ExtInit

Init == PlayerInit /\ AppInit /\ GroupInit /\ SupInit /\ revision = RevFlagCache

InitApp == PlayerInit /\ AppInit /\ GroupInit /\ SupInit /\ revision \in Revisions

\* A GroupsResponse arrives (REST reply or groups event)
InitGroups ==
  /\ PlayerInit /\ AppInit /\ SupInit /\ revision = RevFlagCache
  /\ respA \in Responses
  /\ respB = EmptyResponse
  /\ modelA = NoModel
  /\ modelB = NoModel
  /\ closeEnough = NoVerdict
  /\ lookup = NoLookup
  /\ gpc = "parse"

\* Two GroupsResponses: the one behind the current model and a newer one
InitEquiv ==
  /\ PlayerInit /\ AppInit /\ SupInit /\ revision = RevFlagCache
  /\ respA \in EquivResponses
  /\ respB \in EquivResponses
  /\ modelA = NoModel
  /\ modelB = NoModel
  /\ closeEnough = NoVerdict
  /\ lookup = NoLookup
  /\ gpc = "compare"

\* ------------------------------------------------ InitWebsocketConnection
\* RLock; if p.websocket != nil return nil; RUnlock
InitCheck ==
  /\ opc = "idle"
  /\ transports < MaxTransports
  /\ opc' = IF websocket # NilWs THEN "idle" ELSE "dial"
  /\ UNCHANGED <<websocket, eventHandler, cmdId, cmdCallbackMap, timer, tpc, tcb,
                 wsState, rpc, rframe, rhandler, rcb, rpending,
                 ows, calls, callRet, ckey, invoked, events, sent, transports>>
  /\ UNCHANGED appVars

\* websocketInitHook -> NewWebSocket -> websocketImpl.run: the dial either
\* succeeds (running, read goroutine started) or fails (the client is
\* returned all the same, with running = false and no goroutines; the
\* OnError of the failed dial finds no handler set).  A hook may also
\* return nil, which InitWebsocketConnection reports as an error.
InitDial ==
  /\ opc = "dial"
  /\ \/ \* the hook returns nil: "unable to create websocket", nothing stored
        /\ opc' = "idle"
        /\ UNCHANGED <<wsState, rpc, ows, transports>>
     \/ LET t == transports + 1 IN
        /\ transports' = t
        /\ ows' = t
        /\ \E dialOk \in BOOLEAN :
             IF dialOk
             THEN /\ wsState' = [wsState EXCEPT ![t] = "up"]
                  /\ rpc' = [rpc EXCEPT ![t] = "read"]
             ELSE /\ wsState' = [wsState EXCEPT ![t] = "stopped"]
                  /\ UNCHANGED rpc
        /\ opc' = "store"
  /\ UNCHANGED <<websocket, eventHandler, cmdId, cmdCallbackMap, timer, tpc, tcb,
                 rframe, rhandler, rcb, rpending,
                 calls, callRet, ckey, invoked, events, sent>>
  /\ UNCHANGED appVars

\* Lock; p.eventHandler = eventHandler; p.websocket = ws; Unlock
InitStore ==
  /\ opc = "store"
  /\ eventHandler' = AppHandler
  /\ websocket' = ows
  /\ opc' = "idle"
  /\ UNCHANGED <<cmdId, cmdCallbackMap, timer, tpc, tcb,
                 wsState, rpc, rframe, rhandler, rcb, rpending,
                 ows, calls, callRet, ckey, invoked, events, sent, transports>>
  /\ UNCHANGED appVars

\* CloseWebsocketConnection: RLock; if p.websocket != nil, websocket.Close()
\* (websocketImpl.Close closes the connection when running); RUnlock.
CloseWebsocketConnection ==
  /\ opc = "idle"
  /\ websocket # NilWs
  /\ wsState[websocket] = "up"
  /\ wsState' = [wsState EXCEPT ![websocket] = "down"]
  /\ UNCHANGED <<websocket, eventHandler, cmdId, cmdCallbackMap, timer, tpc, tcb,
                 rpc, rframe, rhandler, rcb, rpending,
                 opc, ows, calls, callRet, ckey, invoked, events, sent, transports>>
  /\ UNCHANGED appVars

\* ------------------------------------------------ SendRequestViaWebsocket
NoWebsocketNever(ws) == FALSE
\* ws := p.websocket; if ws == nil
NoWebsocket(ws) == ws = NilWs

\* SendRequestViaWebsocket, for the next call of any task.  Everything it
\* does to the Player happens in one critical section: with no websocket it
\* returns an error; otherwise it registers the callback and its timer
\* (when callback != nil, hasCb), starts handleCmdTimeout, puts the cmdId in
\* the headers and increments it.  The send that follows outside the lock
\* is handed to the ws captured under the lock; its failure is only logged
\* and the function returns nil.
SendRequestViaWebsocket ==
  /\ calls < MaxCalls
  /\ LET k == calls + 1 IN
     /\ calls' = k
     /\ IF NoWebsocket(websocket)
        THEN /\ callRet' = [callRet EXCEPT ![k] = "err"]
             /\ UNCHANGED <<cmdId, cmdCallbackMap, timer, tpc, ckey, sent>>
        ELSE /\ \E hasCb \in BOOLEAN :
                  IF hasCb
                  THEN /\ cmdCallbackMap' = MapPut(cmdCallbackMap, FmtD(cmdId),
                                                   [callback |-> k, timer |-> k])
                       /\ timer' = [timer EXCEPT ![k] = "armed"]
                       /\ tpc' = [tpc EXCEPT ![k] = "wait"]
                  ELSE UNCHANGED <<cmdCallbackMap, timer, tpc>>
             /\ ckey' = [ckey EXCEPT ![k] = FmtD(cmdId)]
             /\ cmdId' = NextCmdId(cmdId)
             /\ sent' = Append(sent, FmtD(cmdId))
             /\ callRet' = [callRet EXCEPT ![k] = "nil"]
  /\ UNCHANGED <<websocket, eventHandler, tcb, wsState, rpc, rframe, rhandler, rcb,
                 rpending, opc, ows, invoked, events, transports>>
  /\ UNCHANGED appVars

\* --------------------------------------------------------- handleCmdTimeout
\* <-timer.C: the timer of call k fires and its goroutine wakes up.
TimerExpire(k) ==
  /\ timer[k] = "armed"
  /\ tpc[k] = "wait"
  /\ timer' = [timer EXCEPT ![k] = "fired"]
  /\ tpc' = [tpc EXCEPT ![k] = "expired"]
  /\ UNCHANGED <<websocket, eventHandler, cmdId, cmdCallbackMap, tcb,
                 wsState, rpc, rframe, rhandler, rcb, rpending,
                 opc, ows, calls, callRet, ckey, invoked, events, sent, transports>>
  /\ UNCHANGED appVars

\* Lock; cmdCallback, ok := map[cmdId]; delete(map, cmdId); Unlock
HandleCmdTimeoutCS(k) ==
  /\ tpc[k] = "expired"
  /\ IF MapHas(cmdCallbackMap, ckey[k])
     THEN /\ tcb' = [tcb EXCEPT ![k] = cmdCallbackMap[ckey[k]].callback]
          /\ tpc' = [tpc EXCEPT ![k] = "callback"]
     ELSE /\ tpc' = [tpc EXCEPT ![k] = "done"]
          /\ UNCHANGED tcb
  /\ cmdCallbackMap' = MapDelete(cmdCallbackMap, ckey[k])
  /\ UNCHANGED <<websocket, eventHandler, cmdId, timer,
                 wsState, rpc, rframe, rhandler, rcb, rpending,
                 opc, ows, calls, callRet, ckey, invoked, events, sent, transports>>
  /\ UNCHANGED appVars

\* if ok && callback != nil { callback(timeout response) }
HandleCmdTimeoutCallback(k) ==
  /\ tpc[k] = "callback"
  /\ invoked' = [invoked EXCEPT ![tcb[k]] = Append(@, TimeoutResponse)]
  /\ tpc' = [tpc EXCEPT ![k] = "done"]
  /\ UNCHANGED <<websocket, eventHandler, cmdId, cmdCallbackMap, timer, tcb,
                 wsState, rpc, rframe, rhandler, rcb, rpending,
                 opc, ows, calls, callRet, ckey, events, sent, transports>>
  /\ UNCHANGED appVars

\* -------------------------------------------------- reader: OnMessage
\* readGoroutine reads one frame and calls playerImpl.OnMessage, which
\* reads p.eventHandler under the read lock and parses the frame.
ReadMessage(t) ==
  /\ rpc[t] = "read"
  /\ wsState[t] = "up"
  /\ \E f \in RawFrames :
       /\ (ParseOk(f) /\ Parse(f).CmdId = <<>>) => Len(events) < MaxEvents
       /\ rframe' = [rframe EXCEPT ![t] = IF ParseOk(f) THEN Parse(f) ELSE ParseError]
  /\ rhandler' = [rhandler EXCEPT ![t] = eventHandler]
  /\ rpc' = [rpc EXCEPT ![t] = "onmsg"]
  /\ UNCHANGED <<websocket, eventHandler, cmdId, cmdCallbackMap, timer, tpc, tcb,
                 wsState, rcb, rpending,
                 opc, ows, calls, callRet, ckey, invoked, events, sent, transports>>
  /\ UNCHANGED appVars

EventRecordAnonymous(id, r) == [playerId |-> "", response |-> r]
\* eventHandler.OnEvent(userData, response): userData is the player id the
\* websocket was created with
EventRecord(id, r) == [playerId |-> id, response |-> r]

IsEventAlways(r) == TRUE
\* "Does it have a cmdId?": a parsed frame is an event only when its cmdId
\* header is empty; with a cmdId it is looked up and OnMessage returns.
IsEvent(r) == r.CmdId = <<>>

ParseFailedNever(r) == FALSE
\* if err := response.FromRawBytes(msg); err != nil { log; return }
ParseFailed(r) == r = ParseError

\* The rest of OnMessage.  A frame that did not parse is logged and dropped.
\* A frame with a cmdId is looked up under the lock: on a match the timer is
\* stopped and the entry deleted, and the callback is called next; without
\* a match OnMessage returns.  A frame without a cmdId goes to the handler
\* read at entry, if there was one.
OnMessageDispatch(t) ==
  /\ rpc[t] = "onmsg"
  /\ LET r == rframe[t] IN
     IF ParseFailed(r)
     THEN /\ rpc' = [rpc EXCEPT ![t] = "read"]
          /\ rframe' = [rframe EXCEPT ![t] = NoResponse]
          /\ UNCHANGED <<cmdCallbackMap, timer, rcb, events>>
     ELSE IF ~IsEvent(r)
     THEN IF MapHas(cmdCallbackMap, r.CmdId)
          THEN LET e == cmdCallbackMap[r.CmdId] IN
               /\ timer' = [timer EXCEPT ![e.timer] = TimerStop(@)]
               /\ cmdCallbackMap' = MapDelete(cmdCallbackMap, r.CmdId)
               /\ rcb' = [rcb EXCEPT ![t] = e.callback]
               /\ rpc' = [rpc EXCEPT ![t] = "callback"]
               /\ UNCHANGED <<rframe, events>>
          ELSE /\ rpc' = [rpc EXCEPT ![t] = "read"]
               /\ rframe' = [rframe EXCEPT ![t] = NoResponse]
               /\ UNCHANGED <<cmdCallbackMap, timer, rcb, events>>
     ELSE /\ events' = IF rhandler[t] # NilHandler
                       THEN Append(events, EventRecord(PlayerId, r))
                       ELSE events
          /\ rpc' = [rpc EXCEPT ![t] = "read"]
          /\ rframe' = [rframe EXCEPT ![t] = NoResponse]
          /\ UNCHANGED <<cmdCallbackMap, timer, rcb>>
  /\ rhandler' = [rhandler EXCEPT ![t] = NilHandler]
  /\ UNCHANGED <<websocket, eventHandler, cmdId, tpc, tcb, wsState,
                 rpending, opc, ows, calls, callRet, ckey, invoked, sent, transports>>
  /\ UNCHANGED appVars

\* if ok { cmdCallback.callback(response) }; return
OnMessageCallback(t) ==
  /\ rpc[t] = "callback"
  /\ invoked' = [invoked EXCEPT ![rcb[t]] = Append(@, rframe[t])]
  /\ rpc' = [rpc EXCEPT ![t] = "read"]
  /\ rframe' = [rframe EXCEPT ![t] = NoResponse]
  /\ rcb' = [rcb EXCEPT ![t] = 0]
  /\ UNCHANGED <<websocket, eventHandler, cmdId, cmdCallbackMap, timer, tpc, tcb,
                 wsState, rhandler, rpending,
                 opc, ows, calls, callRet, ckey, events, sent, transports>>
  /\ UNCHANGED appVars

\* ---------------------------------------------------- reader: OnClose
\* ReadMessage fails (the peer went away, or the connection was closed by
\* Close): readGoroutine sets running = false and calls OnClose.
ReadError(t) ==
  /\ rpc[t] = "read"
  /\ wsState[t] \in {"up", "down"}
  /\ wsState' = [wsState EXCEPT ![t] = "stopped"]
  /\ rpc' = [rpc EXCEPT ![t] = "onclose"]
  /\ UNCHANGED <<websocket, eventHandler, cmdId, cmdCallbackMap, timer, tpc, tcb,
                 rframe, rhandler, rcb, rpending,
                 opc, ows, calls, callRet, ckey, invoked, events, sent, transports>>
  /\ UNCHANGED appVars

CollectNone(m) == {}
\* callbacks = append(callbacks, cmdCallback.callback) for every entry
CollectCallbacks(m) == {m[key].callback : key \in DOMAIN m}

\* The table OnClose leaves behind: the loop over p.cmdCallbackMap stops the
\* timers and collects the callbacks, and deletes nothing.
OnCloseTable(m) == m

\* playerImpl.OnClose under the lock: websocket and eventHandler to nil,
\* every timer stopped, every callback collected.
OnCloseCS(t) ==
  /\ rpc[t] = "onclose"
  /\ websocket' = NilWs
  /\ eventHandler' = NilHandler
  /\ timer' = [k \in CallIds |->
                 IF \E key \in DOMAIN cmdCallbackMap : cmdCallbackMap[key].timer = k
                 THEN TimerStop(timer[k]) ELSE timer[k]]
  /\ rpending' = [rpending EXCEPT ![t] = CollectCallbacks(cmdCallbackMap)]
  /\ cmdCallbackMap' = OnCloseTable(cmdCallbackMap)
  /\ rpc' = [rpc EXCEPT ![t] = IF CollectCallbacks(cmdCallbackMap) = {}
                               THEN "exit" ELSE "closecb"]
  /\ UNCHANGED <<cmdId, tpc, tcb, wsState, rframe, rhandler, rcb,
                 opc, ows, calls, callRet, ckey, invoked, events, sent, transports>>
  /\ UNCHANGED appVars

\* for _, callback := range callbacks { callback(response) }
OnCloseCallback(t) ==
  /\ rpc[t] = "closecb"
  /\ \E cb \in rpending[t] :
       /\ invoked' = [invoked EXCEPT ![cb] = Append(@, ClosedResponse)]
       /\ rpending' = [rpending EXCEPT ![t] = @ \ {cb}]
       /\ rpc' = [rpc EXCEPT ![t] = IF rpending[t] = {cb} THEN "exit" ELSE "closecb"]
  /\ UNCHANGED <<websocket, eventHandler, cmdId, cmdCallbackMap, timer, tpc, tcb,
                 wsState, rframe, rhandler, rcb,
                 opc, ows, calls, callRet, ckey, events, sent, transports>>
  /\ UNCHANGED appVars

\* ------------------------------------------------------------ publishing
\* mqttClient.Publish(topic, qos, retained, payload)
BrokerPublish(last, topic, payload, retained) ==
  [last EXCEPT ![topic] = [payload |-> payload, qos |-> 1, retained |-> retained]]

CacheHitNever(cache, topic, body) == FALSE
\* if last, ok := app.mqttCache[topic]; ok { if bytes.Equal(body, last) ...
CacheHit(cache, topic, body) == MapHas(cache, topic) /\ cache[topic] = body

\* App.PublishViaMQTT (src/app.go): an exact match with the cached payload
\* returns without publishing; otherwise the payload is cached and
\* published with QoS 1, retained.  The token that Publish returns is
\* dropped, so the outcome of the delivery (req.ok) reaches no program
\* variable; brokerLast and brokerCount record the calls of Publish.
PublishViaMQTT(topic, body) ==
  /\ revision = RevPayloadCache
  /\ req.n + Len(cleanup) < MaxRequests
  /\ \E ok \in BOOLEAN :
       req' = [n |-> req.n + 1, topic |-> topic, body |-> body, ok |-> ok]
  /\ lastBody' = [lastBody EXCEPT ![topic] = body]
  /\ IF CacheHit(mqttCache, topic, body)
     THEN UNCHANGED <<mqttCache, brokerLast, brokerCount>>
     ELSE /\ mqttCache' = MapPut(mqttCache, topic, body)
          /\ brokerLast' = BrokerPublish(brokerLast, topic, body, TRUE)
          /\ brokerCount' = [brokerCount EXCEPT ![topic] = @ + 1]
  /\ UNCHANGED <<revision, cleanup, groupVars, supVars, initVars, extVars>>
  /\ UNCHANGED playerVars

\* App.PublishEventToTopic (src/unnamed/part_008): app.mqttCache[topic] =
\* true, then publish with QoS 1, retained, whatever was published before.
PublishEventToTopic(topic, body) ==
  /\ revision = RevFlagCache
  /\ req.n + Len(cleanup) < MaxRequests
  /\ \E ok \in BOOLEAN :
       req' = [n |-> req.n + 1, topic |-> topic, body |-> body, ok |-> ok]
  /\ lastBody' = [lastBody EXCEPT ![topic] = body]
  /\ mqttCache' = MapPut(mqttCache, topic, CacheFlag)
  /\ brokerLast' = BrokerPublish(brokerLast, topic, body, TRUE)
  /\ brokerCount' = [brokerCount EXCEPT ![topic] = @ + 1]
  /\ UNCHANGED <<revision, cleanup, groupVars, supVars, initVars, extVars>>
  /\ UNCHANGED playerVars

\* The topics of the cache that RemoveStaleTopics clears: those that start
\* with the prefix of a missing player or of a missing group.
StaleTopics(cached, playerIds, groupIds) ==
  {t \in cached : \/ \E id \in playerIds : HasPrefix(t, PlayerPrefix(id))
                  \/ \E id \in groupIds : HasPrefix(t, GroupPrefix(id))}

KeepStale(cache, stale) == cache
\* delete(app.mqttCache, topic) for every stale topic
DropStale(cache, stale) == [t \in (DOMAIN cache) \ stale |-> cache[t]]

\* App.RemoveStaleTopics (src/unnamed/part_008): every cached topic under a
\* prefix is deleted from the cache and published empty, QoS 1, not retained.
\* cleanup keeps, per run, the arguments, the number of publish requests
\* made before it, the topics it published to and the cache it left.
RemoveStaleTopics(playerIds, groupIds) ==
  LET stale == StaleTopics(DOMAIN mqttCache, playerIds, groupIds) IN
  /\ revision = RevFlagCache
  /\ req.n + Len(cleanup) < MaxRequests
  /\ mqttCache' = DropStale(mqttCache, stale)
  /\ brokerLast' = [t \in Topics |->
                     IF t \in stale
                     THEN [payload |-> EmptyPayload, qos |-> 1, retained |-> FALSE]
                     ELSE brokerLast[t]]
  /\ brokerCount' = [t \in Topics |-> IF t \in stale THEN brokerCount[t] + 1
                                      ELSE brokerCount[t]]
  /\ lastBody' = [t \in Topics |-> IF t \in stale THEN NoPayload ELSE lastBody[t]]
  /\ cleanup' = Append(cleanup, [players |-> playerIds, groups |-> groupIds,
                                 at |-> req.n, cleared |-> stale,
                                 cache |-> DOMAIN mqttCache'])
  /\ UNCHANGED <<revision, req, groupVars, supVars, initVars, extVars>>
  /\ UNCHANGED playerVars

AppNext ==
  \/ \E topic \in Topics, body \in Bodies : PublishViaMQTT(topic, body)
  \/ \E topic \in Topics, body \in Bodies : PublishEventToTopic(topic, body)
  \/ \E playerIds \in SUBSET Ids, groupIds \in SUBSET Ids :
       RemoveStaleTopics(playerIds, groupIds)

SpecApp == InitApp /\ [][AppNext]_vars

\* ------------------------------------------------------ group model specs
\* groups, err := getGroupMap(hhid, response)
BuildGroupMap ==
  /\ gpc = "parse"
  /\ modelA' = getGroupMap(respA)
  /\ gpc' = "built"
  /\ UNCHANGED <<respA, respB, modelB, closeEnough, lookup>>
  /\ UNCHANGED <<revision, mqttCache, brokerLast, brokerCount, lastBody, req, cleanup, supVars,
                 initVars, extVars>>
  /\ UNCHANGED playerVars

\* groupsAreCloseEnoughForMe(app.groups, groups), both ways round and on
\* the current model itself
CompareGroupMaps ==
  /\ gpc = "compare"
  /\ modelA' = getGroupMap(respA)
  /\ modelB' = getGroupMap(respB)
  /\ closeEnough' =
       [ab |-> groupsAreCloseEnoughForMe(getGroupMap(respA).groups, getGroupMap(respB).groups),
        ba |-> groupsAreCloseEnoughForMe(getGroupMap(respB).groups, getGroupMap(respA).groups),
        aa |-> groupsAreCloseEnoughForMe(getGroupMap(respA).groups, getGroupMap(respA).groups)]
  /\ gpc' = "compared"
  /\ UNCHANGED <<respA, respB, lookup>>
  /\ UNCHANGED <<revision, mqttCache, brokerLast, brokerCount, lastBody, req, cleanup, supVars,
                 initVars, extVars>>
  /\ UNCHANGED playerVars

\* player, path := getPlayerForNamespace(&app.groups, id, namespace)
ResolvePlayer ==
  /\ gpc = "built"
  /\ \E id \in Ids, namespace \in Namespaces :
       \E result \in getPlayerForNamespace(modelA, id, namespace) :
         lookup' = [id |-> id, namespace |-> namespace, result |-> result]
  /\ gpc' = "resolved"
  /\ UNCHANGED <<respA, respB, modelA, modelB, closeEnough>>
  /\ UNCHANGED <<revision, mqttCache, brokerLast, brokerCount, lastBody, req, cleanup, supVars,
                 initVars, extVars>>
  /\ UNCHANGED playerVars

GroupsNext == BuildGroupMap \/ ResolvePlayer
SpecGroups == InitGroups /\ [][GroupsNext]_vars

EquivNext == CompareGroupMaps
SpecEquiv == InitEquiv /\ [][EquivNext]_vars

\* ------------------------------------------------------- App.run, by state
\* UNCHANGED for everything outside the supervisor
SupFrame ==
  /\ UNCHANGED <<revision, brokerLast, brokerCount, lastBody, req, cleanup, groupVars,
                 initVars, extVars>>
  /\ UNCHANGED playerVars

\* case Idle: app.currentState = Searching
IdleStep ==
  /\ currentState = "Idle"
  /\ currentState' = "Searching"
  /\ msg' = NoMsg
  /\ pubs' = <<>>
  /\ UNCHANGED <<config, groups, groupUpdate, groupsSource, conn, errorChannel, mqttCache,
                 search>>
  /\ SupFrame

\* case Searching: discoverPlayer scans one window.  With a player found,
\* getGroupsRest either succeeds, and the model of the response is staged
\* and the state becomes CreateWebsockets, or fails; with no player, or
\* after the failure, the loop logs and sleeps 10 s in state Searching.
Search ==
  /\ currentState = "Searching"
  /\ ~search.sleeping
  /\ \E window \in Windows :
       \/ /\ PlayerFound(window)
          /\ \E name \in HouseholdResponses :
               groupUpdate' = getGroupMap(HouseholdResponse(name))
          /\ currentState' = "CreateWebsockets"
          /\ search' = [window |-> window, sleeping |-> FALSE]
       \/ /\ search' = [window |-> window, sleeping |-> TRUE]
          /\ UNCHANGED <<currentState, groupUpdate>>
  /\ msg' = NoMsg
  /\ pubs' = <<>>
  /\ UNCHANGED <<config, groups, groupsSource, conn, errorChannel, mqttCache>>
  /\ SupFrame

\* time.Sleep(time.Second * 10) returns: the loop comes back to the switch
Wake ==
  /\ search.sleeping
  /\ search' = NoSearch
  /\ msg' = NoMsg
  /\ pubs' = <<>>
  /\ UNCHANGED <<config, currentState, groups, groupUpdate, groupsSource, conn,
                 errorChannel, mqttCache>>
  /\ SupFrame

\* What InitWebsocketConnection leaves a player with: a running websocket,
\* a websocket whose dial failed (stored all the same, error not forwarded
\* because no handler is set yet), or none (the hook returned nil).
DialOutcomes == {"open", "dead", "none"}

\* case CreateWebsockets: every player of the old model is closed, the
\* staged model becomes app.groups, every player of it is initialised, and
\* the first player (in map order) whose initialisation returned nil
\* becomes groupsSource.  The channels are unbuffered, so the two drain
\* loops remove nothing: senders blocked on errorChannel stay blocked.
CreateWebsocketsStep ==
  /\ currentState = "CreateWebsockets"
  /\ groups' = groupUpdate
  /\ groupUpdate' = NoModel
  /\ \E outcome \in [getPlayers(groupUpdate) -> DialOutcomes] :
       /\ conn' = [id \in Ids |-> IF id \in DOMAIN outcome THEN outcome[id] ELSE "none"]
       /\ LET ok == {id \in DOMAIN outcome : outcome[id] # "none"} IN
          IF ok = {} THEN groupsSource' = groupsSource ELSE groupsSource' \in ok
  /\ currentState' = "Listen"
  /\ search' = NoSearch
  /\ msg' = NoMsg
  /\ pubs' = <<>>
  /\ UNCHANGED <<config, errorChannel, mqttCache>>
  /\ SupFrame

\* ------------------------------------------------------------ the router
SimpleType(type) == IF type = "groups" THEN "groupsSimple"
                    ELSE "extendedPlaybackStatusSimple"

\* f, ok := simplfiers[msg.Headers.Type] and f(body) succeeds
Simplifiable(m) ==
  \/ m.Type = "groups" /\ IsGroupsBody(m.Body)
  \/ m.Type = "extendedPlaybackStatus" /\ m.Body = PlaybackBody

\* simplifySonosType
simplifySonosType(m) ==
  IF Simplifiable(m)
  THEN [m EXCEPT !.Type = SimpleType(m.Type), !.Body = <<"simple">> \o m.Body]
  ELSE m

FanOutAlways(cfg) == TRUE
\* if app.config.Sonos.FanOut
FanOutEnabled(cfg) == cfg.FanOut

\* PublishEventToAllTopics: the topics msg is published to, in each order
\* the loop over group.Players can take
EventTopics(cfg, group, m) ==
  IF m.GroupId = ""
  THEN {<<HouseholdTopic(m.Type)>>}
  ELSE IF FanOutEnabled(cfg)
       THEN {<<GroupTopic(group.Coordinator, m.Type)>> \o o :
               o \in Orders({PlayerTopic(id, m.Type) : id \in group.Players})}
       ELSE {<<GroupTopic(group.Coordinator, m.Type)>>}

\* mqttClient.Publish(topic, 1, retained, payload)
Publication(topic, body, retained) ==
  [topic |-> topic, body |-> body, qos |-> 1, retained |-> retained]

\* getPlayersJSONFromGroupMap, for each order the maps can be walked in
PlayersJSON(m) == {<<"players">> \o o : o \in Orders(getPlayers(m))}

\* The messages the open websockets can hand to OnEvent: groups events
\* from the player the groups namespace was subscribed on, playback events
\* from the coordinators (subscribed to the group namespaces), and from
\* either a subscribe acknowledgement or a globalError.
Deliverable ==
  {[playerId |-> id, Response |-> "", Type |-> "groups", GroupId |-> "", Body |-> b] :
     id \in {i \in Ids : i = groupsSource /\ conn[i] = "open"},
     b \in {<<n>> : n \in HouseholdResponses} \cup {JunkBody}}
  \cup
  UNION {{[playerId |-> id, Response |-> "", Type |-> "extendedPlaybackStatus",
           GroupId |-> g, Body |-> PlaybackBody] :
            g \in {"", groups.players[id].groupId}} :
         id \in {i \in DOMAIN groups.groups : conn[i] = "open"}}
  \cup
  {[playerId |-> id, Response |-> r.Response, Type |-> r.Type, GroupId |-> "",
    Body |-> JunkBody] :
     id \in {i \in Ids : i = groupsSource /\ conn[i] = "open"},
     r \in {[Response |-> "subscribe", Type |-> "none"],
            [Response |-> "subscribe", Type |-> "extendedPlaybackStatus"],
            [Response |-> "", Type |-> "globalError"]}}

NeverAck(m) == FALSE
\* if msg.Headers.Response == "subscribe"
IsSubscribeAck(m) == m.Response = "subscribe"

\* handleResponse returns before it publishes anything
Ignored(m) ==
  \/ IsSubscribeAck(m)
  \/ m.playerId \notin DOMAIN groups.groups
  \/ m.Type \in {"none", "globalError"}
  \/ m.Type = "groups" /\ ~IsGroupsBody(m.Body)

\* case Listen, msg := <-app.responseChannel: handleResponse(msg), all of it:
\* the early returns, the comparison of a groups event with app.groups
\* (RemoveStaleTopics, staging, state change), simplification, the publishes
\* of PublishEventToAllTopics and, after a groups event, of the players.
HandleResponse(m) ==
  /\ currentState = "Listen"
  /\ msg' = m
  /\ IF Ignored(m)
     THEN /\ pubs' = <<>>
          /\ UNCHANGED <<currentState, groupUpdate, mqttCache>>
     ELSE LET group == groups.groups[m.playerId]
              isGroups == m.Type = "groups"
              new == IF isGroups THEN getGroupMap(HouseholdResponse(m.Body[1]))
                     ELSE NoModel
              changed == isGroups /\ ~groupsAreCloseEnoughForMe(groups.groups, new.groups)
              stale == IF changed
                       THEN StaleTopics(DOMAIN mqttCache, missingPlayers(groups, new),
                                        missingGroups(groups, new))
                       ELSE {}
              staged == IF changed THEN new ELSE groupUpdate
              listed == IF DOMAIN staged.groups # {} THEN staged ELSE groups
              sm == IF config.Simplify THEN simplifySonosType(m) ELSE m
          IN /\ groupUpdate' = staged
             /\ currentState' = IF changed THEN "CreateWebsockets" ELSE currentState
             /\ \E clears \in Orders(stale), topics \in EventTopics(config, group, sm),
                   players \in PlayersJSON(listed) :
                  /\ pubs' =
                       [i \in 1..Len(clears) |-> Publication(clears[i], <<>>, FALSE)]
                       \o [i \in 1..Len(topics) |-> Publication(topics[i], sm.Body, TRUE)]
                       \o (IF isGroups
                           THEN <<Publication(HouseholdTopic("players"), players, TRUE)>>
                           ELSE <<>>)
                  /\ mqttCache' =
                       [t \in ((DOMAIN mqttCache) \ stale)
                              \cup {topics[i] : i \in 1..Len(topics)}
                              \cup (IF isGroups THEN {HouseholdTopic("players")} ELSE {})
                          |-> CacheFlag]
  /\ UNCHANGED <<config, groups, groupsSource, conn, errorChannel, search>>
  /\ SupFrame

\* case Listen, err := <-app.errorChannel: app.currentState = Idle
ListenError(id) ==
  /\ currentState = "Listen"
  /\ id \in errorChannel
  /\ errorChannel' = errorChannel \ {id}
  /\ currentState' = "Idle"
  /\ msg' = NoMsg
  /\ pubs' = <<>>
  /\ UNCHANGED <<config, groups, groupUpdate, groupsSource, conn, mqttCache, search>>
  /\ SupFrame

\* readGoroutine ends on a close error the websocket reports (an unexpected
\* close code): playerImpl.OnError hands it to App.OnError, which blocks
\* sending on errorChannel; OnClose then drops the websocket.
TransportError(id) ==
  /\ conn[id] = "open"
  /\ conn' = [conn EXCEPT ![id] = "closed"]
  /\ errorChannel' = errorChannel \cup {id}
  /\ msg' = NoMsg
  /\ pubs' = <<>>
  /\ UNCHANGED <<config, currentState, groups, groupUpdate, groupsSource, mqttCache,
                 search>>
  /\ SupFrame

\* readGoroutine ends on any other read failure (going away, abnormal
\* closure, a read timeout, a network error): OnError is not called, OnClose
\* drops the websocket, and the App is told nothing.
TransportCloseQuiet(id) ==
  /\ conn[id] = "open"
  /\ conn' = [conn EXCEPT ![id] = "closed"]
  /\ msg' = NoMsg
  /\ pubs' = <<>>
  /\ UNCHANGED <<config, currentState, groups, groupUpdate, groupsSource,
                 errorChannel, mqttCache, search>>
  /\ SupFrame

InitSup ==
  /\ PlayerInit /\ AppInit /\ GroupInit /\ revision = RevFlagCache
  /\ config \in Configs
  /\ currentState = "Idle"
  /\ groups = NoModel
  /\ groupUpdate = NoModel
  /\ groupsSource = ""
  /\ conn = [id \in Ids |-> "none"]
  /\ errorChannel = {}
  /\ msg = NoMsg
  /\ pubs = <<>>
  /\ search = NoSearch

SupNext ==
  \/ IdleStep
  \/ Search
  \/ Wake
  \/ CreateWebsocketsStep
  \/ \E m \in Deliverable : HandleResponse(m)
  \/ \E id \in Ids : ListenError(id)
  \/ \E id \in Ids : TransportError(id)
  \/ \E id \in Ids : TransportCloseQuiet(id)

SpecSup == InitSup /\ [][SupNext]_vars

\* The control loop always gets to run, and a sender blocked on
\* errorChannel is received from while the loop is in Listen.
SupFairness ==
  /\ WF_vars(IdleStep)
  /\ WF_vars(Wake)
  /\ WF_vars(CreateWebsocketsStep)
  /\ \A id \in Ids : WF_vars(ListenError(id))

LiveSup == InitSup /\ [][SupNext]_vars /\ SupFairness

\* ---------------------------- InitWebsocketConnection, several callers
CallersFrame ==
  /\ UNCHANGED <<cmdId, cmdCallbackMap, timer, tpc, tcb,
                 wsState, rpc, rframe, rhandler, rcb, rpending,
                 opc, ows, calls, callRet, ckey, invoked, events, sent, transports>>
  /\ UNCHANGED <<revision, mqttCache, brokerLast, brokerCount, lastBody, req, cleanup,
                 groupVars, supVars, extVars>>

\* if p.websocket != nil (under RLock)
AlreadyOpen(ws) == ws # NilWs

\* RLock; if p.websocket != nil { RUnlock; return nil }; RUnlock
CallerCheck(task) ==
  /\ ipc[task] = "idle"
  /\ dials < MaxDials
  /\ IF AlreadyOpen(websocket)
     THEN /\ iret' = [iret EXCEPT ![task] = "nil, already open"]
          /\ UNCHANGED ipc
     ELSE /\ ipc' = [ipc EXCEPT ![task] = "dial"]
          /\ iret' = [iret EXCEPT ![task] = "none"]
  /\ UNCHANGED <<websocket, eventHandler, iws, tstate, dials>>
  /\ CallersFrame

\* ws := websocketInitHook(...), outside any lock: a running client, a
\* client whose dial failed, or nil (the call then returns an error)
CallerDial(task) ==
  /\ ipc[task] = "dial"
  /\ \/ /\ ipc' = [ipc EXCEPT ![task] = "idle"]
        /\ iret' = [iret EXCEPT ![task] = "error"]
        /\ UNCHANGED <<iws, tstate, dials>>
     \/ /\ dials < MaxDials
        /\ dials' = dials + 1
        /\ iws' = [iws EXCEPT ![task] = dials + 1]
        /\ \E st \in {"up", "dead"} : tstate' = [tstate EXCEPT ![dials + 1] = st]
        /\ ipc' = [ipc EXCEPT ![task] = "store"]
        /\ UNCHANGED iret
  /\ UNCHANGED <<websocket, eventHandler>>
  /\ CallersFrame

\* Lock; p.eventHandler = eventHandler; p.websocket = ws; Unlock; return nil
CallerStore(task) ==
  /\ ipc[task] = "store"
  /\ eventHandler' = SinkOf(task)
  /\ websocket' = iws[task]
  /\ ipc' = [ipc EXCEPT ![task] = "idle"]
  /\ iret' = [iret EXCEPT ![task] = "nil"]
  /\ UNCHANGED <<iws, tstate, dials>>
  /\ CallersFrame

\* The read goroutine of a running client ends and calls OnClose, which
\* clears p.websocket and p.eventHandler whichever client is stored
ClientClosed(t) ==
  /\ tstate[t] = "up"
  /\ tstate' = [tstate EXCEPT ![t] = "closed"]
  /\ websocket' = NilWs
  /\ eventHandler' = NilHandler
  /\ UNCHANGED <<ipc, iws, iret, dials>>
  /\ CallersFrame

CallersNext ==
  \/ \E task \in Tasks : CallerCheck(task)
  \/ \E task \in Tasks : CallerDial(task)
  \/ \E task \in Tasks : CallerStore(task)
  \/ \E t \in DialIds : ClientClosed(t)

SpecCallers == Init /\ [][CallersNext]_vars

\* ------------------------------------------------------------ Player spec
\* ------------------------------------------------------ discovery rounds
coreVars == <<revision, mqttCache, brokerLast, brokerCount, lastBody, req, cleanup,
              groupVars, supVars, initVars>>

DiscFrame == UNCHANGED <<playerVars, coreVars, hhConfig, taskVars>>

\* case Idle: app.currentState = Searching
DiscoverIdle ==
  /\ discState = "Idle"
  /\ discState' = "Searching"
  /\ UNCHANGED <<scanned, accepted>>
  /\ DiscFrame

\* case Searching (src/unnamed/part_008): err starts as "timeout"; with a
\* player from discoverPlayer, getGroupsRest and getGroupMap set it; the
\* staged model moves the loop to CreateWebsockets, an error sleeps 10 s.
\* The GET of /groups is made on player.CreateFullRESTUrl("/groups"), which
\* has no host when restUrl is empty.
SearchingRound ==
  /\ discState = "Searching"
  /\ \E scan \in Scans, groupsOk \in BOOLEAN :
       LET found == discoverPlayer(hhConfig, scan)
           fetched == found.index # 0
           staged == fetched /\ found.player.restUrl # "" /\ groupsOk
       IN /\ fetched => Len(accepted) < MaxRounds
          /\ scanned' = [scan |-> scan, index |-> found.index, player |-> found.player,
                         fetched |-> fetched, slept |-> ~staged]
          /\ accepted' = IF fetched THEN Append(accepted, scan[found.index].hhid)
                         ELSE accepted
          /\ discState' = IF staged THEN "CreateWebsockets" ELSE "Sleeping"
  /\ DiscFrame

\* time.Sleep(time.Second * 10) returns, the state is still Searching
DiscoverWake ==
  /\ discState = "Sleeping"
  /\ discState' = "Searching"
  /\ UNCHANGED <<scanned, accepted>>
  /\ DiscFrame

\* The staged model is connected and listened to (CreateWebsockets, Listen)
\* until an error arrives on errorChannel: app.currentState = Idle
SessionLost ==
  /\ discState = "CreateWebsockets"
  /\ discState' = "Idle"
  /\ UNCHANGED <<scanned, accepted>>
  /\ DiscFrame

InitDiscover ==
  /\ PlayerInit /\ PublishInit /\ CallersInit /\ GroupInit /\ SupInit
  /\ revision = RevFlagCache
  /\ DiscInit
  /\ hhConfig \in HouseholdConfigs
  /\ TasksInit

DiscoverNext == DiscoverIdle \/ SearchingRound \/ DiscoverWake \/ SessionLost

SpecDiscover == InitDiscover /\ [][DiscoverNext]_vars

\* ------------------------------------------- event delivery to the loop
ChanFrame == UNCHANGED <<playerVars, coreVars, discVars, invVars, wsVars, cmpVars, webVars>>

ReaderFreeAlways(id) == TRUE
\* ws.callbacks.OnMessage is called in the read loop itself and OnEvent
\* sends on the unbuffered responseChannel: the reader is back at
\* ReadMessage only when its send was received
ReaderFree(id) == \A e \in blocked : e.playerId # id

\* readGoroutine: ReadMessage returns a frame; playerImpl.OnMessage drops a
\* frame that does not parse, hands a frame with a cmdId to its callback
\* and passes an event to App.OnEvent, which sends it on responseChannel.
ReaderRead(id) ==
  /\ rdr[id] = "read"
  /\ ReaderFree(id)
  /\ nread[id] < MaxFrames
  /\ nread' = [nread EXCEPT ![id] = @ + 1]
  /\ \E isEvent \in BOOLEAN :
       blocked' = IF isEvent
                  THEN blocked \cup {[playerId |-> id, frame |-> nread[id] + 1]}
                  ELSE blocked
  /\ UNCHANGED <<rdr, loopState, received, handledLog>>
  /\ ChanFrame

\* readGoroutine: ReadMessage returns an error, the loop is left
ReaderStop(id) ==
  /\ rdr[id] = "read"
  /\ ReaderFree(id)
  /\ rdr' = [rdr EXCEPT ![id] = "closed"]
  /\ UNCHANGED <<nread, blocked, loopState, received, handledLog>>
  /\ ChanFrame

\* case CreateWebsockets: ... app.currentState = Listen
EnterListen ==
  /\ loopState = "CreateWebsockets"
  /\ loopState' = "select"
  /\ UNCHANGED <<rdr, nread, blocked, received, handledLog>>
  /\ ChanFrame

\* case msg := <-app.responseChannel: select takes one of the blocked sends
LoopReceive ==
  /\ loopState = "select"
  /\ \E e \in blocked :
       /\ received' = e
       /\ blocked' = blocked \ {e}
  /\ loopState' = "handle"
  /\ UNCHANGED <<rdr, nread, handledLog>>
  /\ ChanFrame

\* app.handleResponse(msg), then back to the select
LoopHandle ==
  /\ loopState = "handle"
  /\ handledLog' = Append(handledLog, received)
  /\ received' = NoEvent
  /\ loopState' = "select"
  /\ UNCHANGED <<rdr, nread, blocked>>
  /\ ChanFrame

ChanNext ==
  \/ \E id \in Ids : ReaderRead(id)
  \/ \E id \in Ids : ReaderStop(id)
  \/ EnterListen
  \/ LoopReceive
  \/ LoopHandle

SpecChan == Init /\ [][ChanNext]_vars

\* --------------------------------------- switch-over and web interface
InvFrame == UNCHANGED <<playerVars, coreVars, discVars, chanVars, wsVars, cmpVars, webVars>>

\* the maps made so far: those that app.groups or app.groupUpdate point to
\* or have pointed to
InUse == {groupsRef, updateRef} \cup DOMAIN publishedMaps

ReuseMap(h) == groupsRef
\* getGroupMap: allGroups := make(map[string]Group), a map of its own
MakeMap(h) == CHOOSE o \in Objects \ InUse : \A other \in Objects \ InUse : o <= other

\* Searching or handleResponse: app.groupUpdate = getGroupMap(...), and
\* app.currentState = CreateWebsockets
StageGroupUpdate ==
  /\ swapPc = "run"
  /\ Objects \ InUse # {}
  /\ \E name \in HouseholdResponses :
       LET o == MakeMap(heap) IN
       /\ heap' = [heap EXCEPT ![o] = getGroupMap(HouseholdResponse(name))]
       /\ updateRef' = o
  /\ swapPc' = "staged"
  /\ UNCHANGED <<groupsRef, groupsLock, publishedMaps, qpc, qref, qseen>>
  /\ InvFrame

\* app.groupsLock.Lock()
SwapLock ==
  /\ swapPc = "staged"
  /\ ~groupsLock.writer /\ groupsLock.readers = {}
  /\ groupsLock' = [groupsLock EXCEPT !.writer = TRUE]
  /\ swapPc' = "locked"
  /\ UNCHANGED <<heap, groupsRef, updateRef, publishedMaps, qpc, qref, qseen>>
  /\ InvFrame

\* app.groups = app.groupUpdate
SwapAssign ==
  /\ swapPc = "locked"
  /\ groupsRef' = updateRef
  /\ publishedMaps' = [o \in DOMAIN publishedMaps \cup {updateRef} |->
                        IF o = updateRef THEN heap[updateRef] ELSE publishedMaps[o]]
  /\ swapPc' = "assigned"
  /\ UNCHANGED <<heap, updateRef, groupsLock, qpc, qref, qseen>>
  /\ InvFrame

\* app.groupsLock.Unlock(); app.groupUpdate = nil
SwapUnlock ==
  /\ swapPc = "assigned"
  /\ groupsLock' = [groupsLock EXCEPT !.writer = FALSE]
  /\ updateRef' = NilMap
  /\ swapPc' = "run"
  /\ UNCHANGED <<heap, groupsRef, publishedMaps, qpc, qref, qseen>>
  /\ InvFrame

\* GetGroups: app.groupsLock.RLock(); for _, group := range app.groups
ReadLock(task) ==
  /\ qpc[task] \in {"idle", "done"}
  /\ ~groupsLock.writer
  /\ groupsLock' = [groupsLock EXCEPT !.readers = @ \cup {task}]
  /\ qref' = [qref EXCEPT ![task] = groupsRef]
  /\ qseen' = [qseen EXCEPT ![task] = <<>>]
  /\ qpc' = [qpc EXCEPT ![task] = "range"]
  /\ UNCHANGED <<heap, groupsRef, updateRef, swapPc, publishedMaps>>
  /\ InvFrame

\* one iteration: groups = append(groups, exportedGroupFromGroup(group))
ReadGroup(task) ==
  /\ qpc[task] = "range"
  /\ \E id \in DOMAIN heap[qref[task]].groups \ DOMAIN qseen[task] :
       qseen' = [qseen EXCEPT ![task] =
                   [g \in DOMAIN qseen[task] \cup {id} |->
                      heap[qref[task]].groups[g]]]
  /\ UNCHANGED <<heap, groupsRef, updateRef, groupsLock, swapPc, publishedMaps, qpc, qref>>
  /\ InvFrame

\* the range is over: app.groupsLock.RUnlock(), the copy is returned
ReadUnlock(task) ==
  /\ qpc[task] = "range"
  /\ DOMAIN heap[qref[task]].groups \subseteq DOMAIN qseen[task]
  /\ groupsLock' = [groupsLock EXCEPT !.readers = @ \ {task}]
  /\ qpc' = [qpc EXCEPT ![task] = "done"]
  /\ UNCHANGED <<heap, groupsRef, updateRef, swapPc, publishedMaps, qref, qseen>>
  /\ InvFrame

InvNext ==
  \/ StageGroupUpdate
  \/ SwapLock
  \/ SwapAssign
  \/ SwapUnlock
  \/ \E task \in Tasks : ReadLock(task)
  \/ \E task \in Tasks : ReadGroup(task)
  \/ \E task \in Tasks : ReadUnlock(task)

SpecInv == Init /\ [][InvNext]_vars

\* ------------------------------- SendMessage, the goroutines, callbacks
WsFrame == UNCHANGED <<playerVars, coreVars, discVars, chanVars, invVars, cmpVars, webVars>>

\* the goroutine a call into the player runs on: some caller's, the one of
\* handleCmdTimeout, or the read goroutine inside OnMessage or OnClose
Origins == {"caller", "timeout", "response", "close"}
\* SendRequestViaWebsocket or CloseWebsocketConnection
PlayerOps == {"sendRequest", "closeTransport"}

Returned(s) == spc[s] \in {"ok", "err"}

\* sync.RWMutex: Lock waits for the readers and the writer to leave; RLock
\* waits for the writer, and for a Lock call that is already waiting
CanLock(m) == m.writer = NoTask /\ m.readers = {}
CanRLock(m) == m.writer = NoTask
CanRLockRunning == ~runningLock.writer /\ rgo # "lockwait"

\* the read goroutine goes on when the callback it called has returned
ReaderAfter(s, st) ==
  IF origin[s] = "response" THEN "read"
  ELSE IF origin[s] = "close" THEN "done"
  ELSE st

\* A completion path starts on its goroutine (the timer fired, OnMessage
\* got the response, OnClose runs after close(sendChan)), or a caller is
\* about to call into the player.
Start(s) ==
  /\ spc[s] = "idle"
  /\ \E o \in Origins, op \in PlayerOps :
       /\ origin' = [origin EXCEPT ![s] = o]
       /\ sop' = [sop EXCEPT ![s] = op]
       /\ o = "response" => rgo = "read"
       /\ o = "close" => rgo = "chanclosed"
       /\ rgo' = IF o = "response" THEN "callback"
                 ELSE IF o = "close" THEN "onclose" ELSE rgo
       /\ spc' = [spc EXCEPT ![s] = IF o = "caller" THEN "enter" ELSE "pathlock"]
  /\ UNCHANGED <<running, runningLock, chanClosed, connUp, wpc, pmu, pws>>
  /\ WsFrame

\* handleCmdTimeout, OnMessage, OnClose: p.Lock()
PathLock(s) ==
  /\ spc[s] = "pathlock"
  /\ CanLock(pmu)
  /\ pmu' = [pmu EXCEPT !.writer = s]
  /\ spc' = [spc EXCEPT ![s] = "pathcs"]
  /\ UNCHANGED <<running, runningLock, chanClosed, connUp, wpc, rgo, pws, origin, sop>>
  /\ WsFrame

\* the entry is taken from the table (OnClose: p.websocket = nil),
\* p.Unlock(), and the callback is called: it calls into the player
PathUnlock(s) ==
  /\ spc[s] = "pathcs"
  /\ pws' = IF origin[s] = "close" THEN "nil" ELSE pws
  /\ pmu' = FreeMutex
  /\ spc' = [spc EXCEPT ![s] = "enter"]
  /\ UNCHANGED <<running, runningLock, chanClosed, connUp, wpc, rgo, origin, sop>>
  /\ WsFrame

\* SendRequestViaWebsocket: p.Lock(); CloseWebsocketConnection: p.RLock()
Enter(s) ==
  /\ spc[s] = "enter"
  /\ IF sop[s] = "sendRequest"
     THEN /\ CanLock(pmu)
          /\ pmu' = [pmu EXCEPT !.writer = s]
          /\ spc' = [spc EXCEPT ![s] = "register"]
     ELSE /\ CanRLock(pmu)
          /\ pmu' = [pmu EXCEPT !.readers = @ \cup {s}]
          /\ spc' = [spc EXCEPT ![s] = "close"]
  /\ UNCHANGED <<running, runningLock, chanClosed, connUp, wpc, rgo, pws, origin, sop>>
  /\ WsFrame

\* SendRequestViaWebsocket: ws == nil returns the error; else the callback
\* is registered, p.Unlock(), and ws.SendMessage is called next
Register(s) ==
  /\ spc[s] = "register"
  /\ pmu' = FreeMutex
  /\ spc' = [spc EXCEPT ![s] = IF pws = "nil" THEN "err" ELSE "sendMessage"]
  /\ rgo' = IF pws = "nil" THEN ReaderAfter(s, rgo) ELSE rgo
  /\ UNCHANGED <<running, runningLock, chanClosed, connUp, wpc, pws, origin, sop>>
  /\ WsFrame

\* SendMessage: runningLock.RLock(); if ws.running the send on sendChan is
\* next, with the read lock held; else the error is returned
SendRLock(s) ==
  /\ spc[s] = "sendMessage"
  /\ CanRLockRunning
  /\ IF running
     THEN /\ runningLock' = [runningLock EXCEPT !.readers = @ \cup {s}]
          /\ spc' = [spc EXCEPT ![s] = "sending"]
          /\ UNCHANGED rgo
     ELSE /\ spc' = [spc EXCEPT ![s] = "err"]
          /\ rgo' = ReaderAfter(s, rgo)
          /\ UNCHANGED runningLock
  /\ UNCHANGED <<running, chanClosed, connUp, wpc, pmu, pws, origin, sop>>
  /\ WsFrame

\* ws.sendChan <- data meets case message, ok := <-ws.sendChan in the write
\* goroutine; SendMessage returns nil and releases the read lock
SendHandoff(s) ==
  /\ spc[s] = "sending"
  /\ wpc = "select"
  /\ ~chanClosed
  /\ wpc' = "write"
  /\ runningLock' = [runningLock EXCEPT !.readers = @ \ {s}]
  /\ spc' = [spc EXCEPT ![s] = "ok"]
  /\ rgo' = ReaderAfter(s, rgo)
  /\ UNCHANGED <<running, chanClosed, connUp, pmu, pws, origin, sop>>
  /\ WsFrame

\* CloseWebsocketConnection with p.RLock held: a stored websocket is
\* closed (Close reads running under runningLock.RLock and closes the
\* connection if it was running); p.RUnlock()
CloseTransport(s) ==
  /\ spc[s] = "close"
  /\ pws = "set" => CanRLockRunning
  /\ connUp' = IF pws = "set" /\ running THEN FALSE ELSE connUp
  /\ pmu' = [pmu EXCEPT !.readers = @ \ {s}]
  /\ spc' = [spc EXCEPT ![s] = "ok"]
  /\ rgo' = ReaderAfter(s, rgo)
  /\ UNCHANGED <<running, runningLock, chanClosed, wpc, pws, origin, sop>>
  /\ WsFrame

\* writeGoroutine: NextWriter, Write and Close succeed, or one of them
\* fails: OnError, return, and the deferred ws.conn.Close()
WriterWrite ==
  /\ wpc = "write"
  /\ \/ /\ connUp
        /\ wpc' = "select"
        /\ UNCHANGED connUp
     \/ /\ wpc' = "exited"
        /\ connUp' = FALSE
  /\ UNCHANGED <<running, runningLock, chanClosed, rgo, pmu, pws, spc, origin, sop>>
  /\ WsFrame

\* writeGoroutine: case <-ticker.C and the ping cannot be written
WriterPingFails ==
  /\ wpc = "select"
  /\ wpc' = "exited"
  /\ connUp' = FALSE
  /\ UNCHANGED <<running, runningLock, chanClosed, rgo, pmu, pws, spc, origin, sop>>
  /\ WsFrame

\* writeGoroutine: sendChan is closed (!ok): the close message, return
WriterChanClosed ==
  /\ wpc = "select"
  /\ chanClosed
  /\ wpc' = "exited"
  /\ connUp' = FALSE
  /\ UNCHANGED <<running, runningLock, chanClosed, rgo, pmu, pws, spc, origin, sop>>
  /\ WsFrame

\* readGoroutine: ReadMessage returns an error while the connection is up
\* (the peer closed it, the read deadline passed); break, ws.conn.Close()
ReaderError ==
  /\ rgo = "read"
  /\ connUp
  /\ connUp' = FALSE
  /\ rgo' = "closing"
  /\ UNCHANGED <<running, runningLock, chanClosed, wpc, pmu, pws, spc, origin, sop>>
  /\ WsFrame

\* readGoroutine: ReadMessage on the closed connection returns an error
ReaderConnClosed ==
  /\ rgo = "read"
  /\ ~connUp
  /\ rgo' = "closing"
  /\ UNCHANGED <<running, runningLock, chanClosed, connUp, wpc, pmu, pws, spc, origin, sop>>
  /\ WsFrame

\* readGoroutine: ws.runningLock.Lock() is called
ReaderCallLock ==
  /\ rgo = "closing"
  /\ rgo' = "lockwait"
  /\ UNCHANGED <<running, runningLock, chanClosed, connUp, wpc, pmu, pws, spc, origin, sop>>
  /\ WsFrame

\* ... and returns once no reader holds the lock
ReaderLock ==
  /\ rgo = "lockwait"
  /\ runningLock.readers = {}
  /\ runningLock' = [runningLock EXCEPT !.writer = TRUE]
  /\ rgo' = "locked"
  /\ UNCHANGED <<running, chanClosed, connUp, wpc, pmu, pws, spc, origin, sop>>
  /\ WsFrame

\* ws.running = false; ws.runningLock.Unlock()
ReaderMark ==
  /\ rgo = "locked"
  /\ running' = FALSE
  /\ runningLock' = [runningLock EXCEPT !.writer = FALSE]
  /\ rgo' = "marked"
  /\ UNCHANGED <<chanClosed, connUp, wpc, pmu, pws, spc, origin, sop>>
  /\ WsFrame

\* close(ws.sendChan)
ReaderCloseChan ==
  /\ rgo = "marked"
  /\ chanClosed' = TRUE
  /\ rgo' = "chanclosed"
  /\ UNCHANGED <<running, runningLock, connUp, wpc, pmu, pws, spc, origin, sop>>
  /\ WsFrame

\* ws.callbacks.OnClose with an empty table: p.Lock(), p.websocket = nil,
\* p.Unlock(), no callback to call
ReaderOnClose ==
  /\ rgo = "chanclosed"
  /\ CanLock(pmu)
  /\ pws' = "nil"
  /\ rgo' = "done"
  /\ UNCHANGED <<running, runningLock, chanClosed, connUp, wpc, pmu, spc, origin, sop>>
  /\ WsFrame

WsNext ==
  \/ \E s \in Senders : Start(s)
  \/ \E s \in Senders : PathLock(s)
  \/ \E s \in Senders : PathUnlock(s)
  \/ \E s \in Senders : Enter(s)
  \/ \E s \in Senders : Register(s)
  \/ \E s \in Senders : SendRLock(s)
  \/ \E s \in Senders : SendHandoff(s)
  \/ \E s \in Senders : CloseTransport(s)
  \/ WriterWrite
  \/ WriterPingFails
  \/ WriterChanClosed
  \/ ReaderError
  \/ ReaderConnClosed
  \/ ReaderCallLock
  \/ ReaderLock
  \/ ReaderMark
  \/ ReaderCloseChan
  \/ ReaderOnClose

SpecWs == Init /\ [][WsNext]_vars

\* Every step of the program is taken when it stays possible; a failing
\* write and a read error on a connection that is up are the network's.
WsFairness ==
  /\ \A s \in Senders :
       /\ WF_vars(PathLock(s)) /\ WF_vars(PathUnlock(s)) /\ WF_vars(Enter(s))
       /\ WF_vars(Register(s)) /\ WF_vars(SendRLock(s)) /\ WF_vars(SendHandoff(s))
       /\ WF_vars(CloseTransport(s))
  /\ WF_vars(WriterWrite) /\ WF_vars(WriterChanClosed)
  /\ WF_vars(ReaderConnClosed) /\ WF_vars(ReaderCallLock) /\ WF_vars(ReaderLock)
  /\ WF_vars(ReaderMark) /\ WF_vars(ReaderCloseChan) /\ WF_vars(ReaderOnClose)

LiveWs == SpecWs /\ WsFairness

\* ------------------------------------------------------- stale prefixes
\* RemoveStaleTopics: one prefix per player and per group it is given
StalePrefixes(playerIds, groupIds) ==
  {PlayerPrefix(id) : id \in playerIds} \cup {GroupPrefix(id) : id \in groupIds}

\* handleResponse, the models not being close enough:
\* app.RemoveStaleTopics(missingPlayers(app.groups, groups),
\*                       missingGroups(app.groups, groups))
ComputeStale ==
  /\ gpc = "compared"
  /\ ~closeEnough.ab
  /\ staleIds' = [players |-> missingPlayers(modelA, modelB),
                  groups |-> missingGroups(modelA, modelB),
                  prefixes |-> StalePrefixes(missingPlayers(modelA, modelB),
                                             missingGroups(modelA, modelB))]
  /\ gpc' = "reported"
  /\ UNCHANGED <<respA, respB, modelA, modelB, closeEnough, lookup>>
  /\ UNCHANGED <<revision, mqttCache, brokerLast, brokerCount, lastBody, req, cleanup, supVars,
                 initVars, discVars, chanVars, invVars, wsVars, webVars>>
  /\ UNCHANGED playerVars

MissingNext == CompareGroupMaps \/ ComputeStale

\* ------------------------------------------------------ /api/v1/wstest
WebFrame == UNCHANGED <<playerVars, coreVars, discVars, chanVars, invVars, wsVars, cmpVars>>

\* var responseChan chan sonos.WebsocketResponse: declared, never made
NilChan == "nil"
responseChan(h) == NilChan

\* a send or a receive on a nil channel never proceeds
ChanUsable(ch) == ch # NilChan

\* the goroutines a registered callback is invoked on: the read goroutine
\* (OnMessage with the response, OnClose) or the timer's (handleCmdTimeout)
Invokers == {"response", "timeout", "close"}
OnReadGoroutine(from) == from \in {"response", "close"}

\* the read goroutine of the player is not inside a callback
ReadGoroutineFree ==
  \A h \in Handlers : ~(cbpc[h] = "send" /\ OnReadGoroutine(cbfrom[h]))

\* a POST /api/v1/wstest/{id}/{namespace}/{command} arrives: the handler
\* declares responseChan and calls data.CommandOverWebsocket
WstestRequest(h) ==
  /\ hpc[h] = "idle"
  /\ hpc' = [hpc EXCEPT ![h] = "called"]
  /\ UNCHANGED <<written, cbpc, cbfrom>>
  /\ WebFrame

\* CommandOverWebsocket returns: with an error, and the handler writes it
\* and returns; or with nil, the callback being registered, and the handler
\* goes on to response := <-responseChan
CommandOverWebsocket(h) ==
  /\ hpc[h] = "called"
  /\ \E err \in BOOLEAN :
       IF err
       THEN /\ hpc' = [hpc EXCEPT ![h] = "returned"]
            /\ written' = [written EXCEPT ![h] = @ + 1]
            /\ UNCHANGED cbpc
       ELSE /\ hpc' = [hpc EXCEPT ![h] = "receive"]
            /\ cbpc' = [cbpc EXCEPT ![h] = "registered"]
            /\ UNCHANGED written
  /\ UNCHANGED cbfrom
  /\ WebFrame

\* the player invokes the callback, after releasing its mutex, with the
\* response, the timeout failure or the transport-closed failure; the
\* callback is at responseChan <- resp
InvokeCallback(h) ==
  /\ cbpc[h] = "registered"
  /\ \E from \in Invokers :
       /\ OnReadGoroutine(from) => ReadGoroutineFree
       /\ cbfrom' = [cbfrom EXCEPT ![h] = from]
  /\ cbpc' = [cbpc EXCEPT ![h] = "send"]
  /\ UNCHANGED <<hpc, written>>
  /\ WebFrame

\* the callback's send meets the handler's receive, if the channel lets
\* them: the callback returns to the goroutine that invoked it, the handler
\* converts the response, writes it and returns
ResponseHandoff(h) ==
  /\ hpc[h] = "receive"
  /\ cbpc[h] = "send"
  /\ IF ChanUsable(responseChan(h))
     THEN /\ cbpc' = [cbpc EXCEPT ![h] = "returned"]
          /\ hpc' = [hpc EXCEPT ![h] = "returned"]
          /\ written' = [written EXCEPT ![h] = @ + 1]
     ELSE UNCHANGED <<hpc, written, cbpc>>
  /\ UNCHANGED cbfrom
  /\ WebFrame

WebNext ==
  \E h \in Handlers :
    \/ WstestRequest(h)
    \/ CommandOverWebsocket(h)
    \/ InvokeCallback(h)
    \/ ResponseHandoff(h)

SpecWeb == Init /\ [][WebNext]_vars

\* net/http runs each handler on its own goroutine, and the read and timer
\* goroutines run on: every step is taken when it stays possible
WebFairness ==
  \A h \in Handlers :
    /\ WF_vars(CommandOverWebsocket(h))
    /\ WF_vars(InvokeCallback(h))
    /\ WF_vars(ResponseHandoff(h))

LiveWeb == SpecWeb /\ WebFairness
SpecMissing == InitEquiv /\ [][MissingNext]_vars

PlayerNext ==
  \/ InitCheck
  \/ InitDial
  \/ InitStore
  \/ CloseWebsocketConnection
  \/ SendRequestViaWebsocket
  \/ \E k \in CallIds : TimerExpire(k)
  \/ \E k \in CallIds : HandleCmdTimeoutCS(k)
  \/ \E k \in CallIds : HandleCmdTimeoutCallback(k)
  \/ \E t \in TransportIds : ReadMessage(t)
  \/ \E t \in TransportIds : OnMessageDispatch(t)
  \/ \E t \in TransportIds : OnMessageCallback(t)
  \/ \E t \in TransportIds : ReadError(t)
  \/ \E t \in TransportIds : OnCloseCS(t)
  \/ \E t \in TransportIds : OnCloseCallback(t)

Spec == Init /\ [][PlayerNext]_vars

\* Scheduling: an armed timer fires, and the timer goroutines and the read
\* goroutines always get to run their next step.
Fairness ==
  /\ \A k \in CallIds : /\ WF_vars(TimerExpire(k))
                        /\ WF_vars(HandleCmdTimeoutCS(k))
                        /\ WF_vars(HandleCmdTimeoutCallback(k))
  /\ \A t \in TransportIds : /\ WF_vars(OnMessageDispatch(t))
                             /\ WF_vars(OnMessageCallback(t))
                             /\ WF_vars(OnCloseCS(t))
                             /\ WF_vars(OnCloseCallback(t))

LiveSpec == Init /\ [][PlayerNext]_vars /\ Fairness

\* ============================================================== properties

\* How often the callback of call k was invoked with a response from src
Invocations(k, src) == Cardinality({i \in DOMAIN invoked[k] : invoked[k][i].src = src})

\* ------------------------------------------------------------------- C1
\* C1: once OnClose has returned on a transport and no transport is
\* installed, the correlation table is empty, and a callback that OnClose
\* failed has been invoked exactly once, with the close failure, whatever
\* the timers did meanwhile.
C1_CloseDrainsTable ==
  \A t \in TransportIds :
    (rpc[t] = "exit" /\ websocket = NilWs) =>
      /\ cmdCallbackMap = EmptyMap
      /\ \A k \in CallIds :
           Invocations(k, "close") > 0 => invoked[k] = <<ClosedResponse>>

\* ------------------------------------------------------------------- C2
\* C2: every call that returned nil and registered a callback eventually
\* has that callback invoked (with a response, the timeout failure or the
\* close failure).
C2_NoDanglingRequest ==
  \A k \in CallIds :
    (callRet[k] = "nil" /\ timer[k] # "none") ~> (invoked[k] # <<>>)

\* a request that was failed by the close of its transport
C2_Witness ==
  \E k \in CallIds : callRet[k] = "nil" /\ invoked[k] = <<ClosedResponse>>

\* ------------------------------------------------------------------- C3
\* C3: the cmdIds placed in the headers of the requests, in the order the
\* calls went through the critical section, start at "1" and are strictly
\* increasing, so no two requests carry the same cmdId.
C3_CmdIdsIncreaseFromOne ==
  /\ Len(sent) > 0 => sent[1] = <<1>>
  /\ \A i, j \in DOMAIN sent : i < j => AtoI(sent[i]) < AtoI(sent[j])

C3_Witness == Len(sent) >= 2 /\ sent[2] = <<2>>

\* ------------------------------------------------------------------- C4
\* C4: when the timer of call k has fired and handleCmdTimeout finds the
\* entry, that entry and no other leaves the table, the callback is then
\* invoked with the timeout failure, and neither step touches the event
\* sink; a callback gets the timeout failure at most once, and unless the
\* transport was closed on it meanwhile that is its only invocation.
C4_TimeoutPath ==
  /\ [][\A k \in CallIds :
          (tpc[k] = "expired" /\ tpc'[k] # "expired"
             /\ ckey[k] \in DOMAIN cmdCallbackMap) =>
            /\ DOMAIN cmdCallbackMap' = DOMAIN cmdCallbackMap \ {ckey[k]}
            /\ \A x \in DOMAIN cmdCallbackMap' : cmdCallbackMap'[x] = cmdCallbackMap[x]
            /\ tpc'[k] = "callback"
            /\ events' = events
            /\ invoked' = invoked]_vars
  /\ [][\A k \in CallIds :
          (tpc[k] = "callback" /\ tpc'[k] # "callback") =>
            /\ invoked' = [invoked EXCEPT ![k] = Append(@, TimeoutResponse)]
            /\ tpc'[k] = "done"
            /\ events' = events
            /\ cmdCallbackMap' = cmdCallbackMap]_vars
  /\ [](\A k \in CallIds :
          /\ Invocations(k, "timeout") <= 1
          /\ tpc[k] \in {"callback", "done"} => ckey[k] \notin DOMAIN cmdCallbackMap
          /\ (Invocations(k, "timeout") = 1 /\ Invocations(k, "close") = 0)
               => invoked[k] = <<TimeoutResponse>>)

\* the only outstanding request timed out
C4_Witness ==
  \E k \in CallIds :
    /\ invoked[k] = <<TimeoutResponse>>
    /\ tpc[k] = "done"
    /\ cmdCallbackMap = EmptyMap
    /\ events = <<>>

\* ------------------------------------------------------------------- C5
\* The frame in OnMessage on transport t answers a request whose entry
\* handleCmdTimeout has already removed.
LateReply(t) ==
  /\ rpc[t] = "onmsg"
  /\ rframe[t].CmdId # <<>>
  /\ \E k \in CallIds : /\ ckey[k] = rframe[t].CmdId
                        /\ tpc[k] \in {"callback", "done"}
                        /\ tcb[k] = k

\* C5: OnMessage on a late reply invokes no callback and no event sink,
\* leaves the table as it is and goes back to reading.
C5_LateReplyDropped ==
  [][\A t \in TransportIds :
       (LateReply(t) /\ rpc'[t] # "onmsg") =>
         /\ invoked' = invoked
         /\ events' = events
         /\ cmdCallbackMap' = cmdCallbackMap
         /\ rpc'[t] = "read"]_vars

\* a reply is being handled after its request got the timeout failure
C5_Witness ==
  \E t \in TransportIds :
    /\ LateReply(t)
    /\ rhandler[t] # NilHandler
    /\ \E k \in CallIds : ckey[k] = rframe[t].CmdId /\ invoked[k] = <<TimeoutResponse>>

\* ------------------------------------------------------------------- C6
\* C6: OnMessage on a frame whose cmdId is in the table stops the timer of
\* the entry, removes the entry and no other, and then invokes the stored
\* callback with the parsed response; the event sink is not invoked; a
\* callback gets a response at most once and never both a response and the
\* timeout failure.
C6_MatchedResponse ==
  /\ [][\A t \in TransportIds :
          (rpc[t] = "onmsg" /\ rpc'[t] # "onmsg"
             /\ rframe[t].CmdId \in DOMAIN cmdCallbackMap) =>
            /\ timer'[cmdCallbackMap[rframe[t].CmdId].timer] # "armed"
            /\ DOMAIN cmdCallbackMap' = DOMAIN cmdCallbackMap \ {rframe[t].CmdId}
            /\ \A x \in DOMAIN cmdCallbackMap' : cmdCallbackMap'[x] = cmdCallbackMap[x]
            /\ rpc'[t] = "callback"
            /\ rcb'[t] = cmdCallbackMap[rframe[t].CmdId].callback
            /\ rframe'[t] = rframe[t]
            /\ events' = events]_vars
  /\ [][\A t \in TransportIds :
          (rpc[t] = "callback" /\ rpc'[t] # "callback") =>
            /\ invoked' = [invoked EXCEPT ![rcb[t]] = Append(@, rframe[t])]
            /\ ckey[rcb[t]] = rframe[t].CmdId
            /\ events' = events]_vars
  /\ [](\A k \in CallIds :
          /\ Invocations(k, "response") <= 1
          /\ ~(Invocations(k, "response") > 0 /\ Invocations(k, "timeout") > 0)
          /\ (\E t \in TransportIds : rpc[t] = "callback" /\ rcb[t] = k)
               => (tpc[k] # "callback" /\ Invocations(k, "timeout") = 0))

\* a request was answered after its timer had already fired, and the timer
\* goroutine found nothing to do
C6_Witness ==
  \E k \in CallIds :
    /\ Len(invoked[k]) = 1
    /\ invoked[k][1].src = "response"
    /\ invoked[k][1].CmdId = ckey[k]
    /\ timer[k] = "fired"
    /\ tpc[k] = "done"
    /\ events = <<>>

\* ------------------------------------------------------------------- C7
\* OnMessage on transport t finishes with a frame that parsed
DispatchParsed(t) ==
  rpc[t] = "onmsg" /\ rpc'[t] # "onmsg" /\ rframe[t] # ParseError

\* C7 as stated: a parsed frame that the table does not consume (no cmdId,
\* or a cmdId without entry) reaches the event sink once, with the player
\* id, while a sink is installed, and invokes no callback.
C7_UnconsumedFrameIsEvent ==
  [][\A t \in TransportIds :
       (DispatchParsed(t) /\ rframe[t].CmdId \notin DOMAIN cmdCallbackMap
          /\ rhandler[t] # NilHandler) =>
         /\ events' = Append(events, [playerId |-> PlayerId, response |-> rframe[t]])
         /\ invoked' = invoked]_vars

\* C7, amended: a parsed frame with an empty cmdId reaches the event sink
\* that was installed when OnMessage started, once, with the player id and
\* the parsed response, and invokes no callback; a parsed frame with a
\* cmdId that has no entry reaches neither the sink nor a callback.
C7_FrameWithoutCmdIdIsEvent ==
  [][\A t \in TransportIds :
       DispatchParsed(t) =>
         IF rframe[t].CmdId = <<>>
         THEN /\ events' = IF rhandler[t] # NilHandler
                           THEN Append(events, [playerId |-> PlayerId,
                                                response |-> rframe[t]])
                           ELSE events
              /\ invoked' = invoked
              /\ cmdCallbackMap' = cmdCallbackMap
         ELSE rframe[t].CmdId \notin DOMAIN cmdCallbackMap =>
                /\ events' = events
                /\ invoked' = invoked
                /\ cmdCallbackMap' = cmdCallbackMap]_vars

\* an event was delivered, its body re-encoded
C7_Witness ==
  /\ Len(events) = 1
  /\ events[1].playerId = PlayerId
  /\ events[1].response.Type = "fakeEvent"
  /\ events[1].response.Body = "{\"data\":1}"
  /\ \A k \in CallIds : invoked[k] = <<>>

C9_IdenticalPublishSkipped ==
  [][(req'.n = req.n + 1 /\ lastBody[req'.topic] = req'.body) =>
       brokerCount' = brokerCount]_vars

\* ------------------------------------------------------------------ C10
\* C10: for every topic that was published to, the cache has no entry or
\* holds the payload of the last broker publish to the topic.
C10_CacheHoldsLastPayload ==
  \A t \in Topics :
    brokerCount[t] > 0 =>
      \/ t \notin DOMAIN mqttCache
      \/ mqttCache[t] = brokerLast[t].payload

\* ------------------------------------------------------------------ C15
\* C15: in a model built by getGroupMap, every player that a group refers
\* to (as coordinator or member) is a member of exactly one group, the
\* coordinator of that group is one of its members, and the player's
\* groupId and coordinatorId are those of the group.
C15_GroupModelWellFormed ==
  gpc = "built" =>
    \A p \in getPlayers(modelA) \cup DOMAIN modelA.groups :
      /\ Cardinality({c \in DOMAIN modelA.groups : p \in modelA.groups[c].Players}) = 1
      /\ \A c \in DOMAIN modelA.groups :
           p \in modelA.groups[c].Players =>
             /\ c \in modelA.groups[c].Players
             /\ modelA.players[p].coordinatorId = c
             /\ modelA.players[p].groupId = modelA.players[c].groupId

\* ------------------------------------------------------------------ C16
\* C16: groupsAreCloseEnoughForMe(a, b) is true exactly when a and b have
\* the same coordinator ids and, under each, the same member ids; names
\* and group ids have no say.
C16_CloseEnoughIsSameSets ==
  gpc = "compared" =>
    (closeEnough.ab <=>
       /\ DOMAIN modelA.groups = DOMAIN modelB.groups
       /\ \A id \in DOMAIN modelA.groups :
            modelA.groups[id].Players = modelB.groups[id].Players)

\* two models that differ in the names and in the group id only
C16_Witness ==
  /\ gpc = "compared"
  /\ closeEnough.ab
  /\ \E id \in DOMAIN modelA.groups :
       /\ modelA.groups[id].Players # {}
       /\ modelA.players[id].groupId # modelB.players[id].groupId
       /\ modelA.players[id].Name # modelB.players[id].Name

\* ------------------------------------------------------------------ C17
\* C17: groupsAreCloseEnoughForMe is reflexive and symmetric.
C17_CloseEnoughReflexiveSymmetric ==
  gpc = "compared" =>
    /\ closeEnough.aa
    /\ closeEnough.ab = closeEnough.ba

\* two models with a group each that are not equivalent, either way round
C17_Witness ==
  /\ gpc = "compared"
  /\ ~closeEnough.ab
  /\ ~closeEnough.ba
  /\ DOMAIN modelA.groups # {}
  /\ DOMAIN modelB.groups # {}

\* ------------------------------------------------------------------ C18
\* The groups of the response at positions whose coordinator is not in the
\* flat player list
BadGroups(resp) ==
  {i \in DOMAIN resp.Groups : resp.Groups[i].CoordinatorId \notin DOMAIN resp.Players}

\* C18: a group whose coordinator is not in the flat player list is left
\* out of the model, no player is assigned to its coordinator, and the
\* model is the one getGroupMap builds from the response without it.
C18_UnknownCoordinatorSkipped ==
  gpc = "built" =>
    LET Known(g) == g.CoordinatorId \in DOMAIN respA.Players
        others == [respA EXCEPT !.Groups = SelectSeq(respA.Groups, Known)]
    IN /\ modelA = getGroupMap(others)
       /\ \A i \in BadGroups(respA) :
            /\ respA.Groups[i].CoordinatorId \notin DOMAIN modelA.groups
            /\ \A p \in DOMAIN modelA.players :
                 modelA.players[p].coordinatorId # respA.Groups[i].CoordinatorId

\* a bad group that lists a known player, next to a group that was built
C18_Witness ==
  /\ gpc = "built"
  /\ \E i \in BadGroups(respA) :
       respA.Groups[i].PlayerIds \cap DOMAIN respA.Players # {}
  /\ DOMAIN modelA.groups # {}

\* ------------------------------------------------------------ supervisor claims
\* A step of the control loop that handled a message in Listen
Handled == currentState = "Listen" /\ msg' # NoMsg

\* C11: when a groups event shows that player p or coordinator g vanished,
\* every cached topic under {base}/player/p or {base}/group/g is published
\* with an empty payload, retained, and leaves the cache.
C11_VanishedTopicsCleared ==
  [][Handled /\ currentState' = "CreateWebsockets" =>
       \A t \in DOMAIN mqttCache :
         (/\ Len(t) = 4
          /\ \/ t[2] = "player" /\ t[3] \in getPlayers(groups) \ getPlayers(groupUpdate')
             \/ t[2] = "group" /\ t[3] \in (DOMAIN groups.groups) \ DOMAIN groupUpdate'.groups)
         => /\ t \notin DOMAIN mqttCache'
            /\ \E i \in 1..Len(pubs') : pubs'[i] = Publication(t, <<>>, TRUE)]_vars

\* C12: in Listen every coordinator of the current model has an open
\* websocket.
C12_ListenHasOpenTransports ==
  currentState = "Listen" => \A id \in DOMAIN groups.groups : conn[id] = "open"

\* C13: a groups event from groupsSource whose model differs from app.groups
\* stages that model and sends the loop to CreateWebsockets, which closes
\* the old websockets and makes the staged model current; an equivalent
\* model leaves the loop in Listen with every websocket as it was.
C13_GroupsEventReconnects ==
  /\ [][Handled /\ msg'.Type = "groups" /\ msg'.Response = ""
          /\ msg'.playerId = groupsSource /\ IsGroupsBody(msg'.Body) =>
        LET new == getGroupMap(HouseholdResponse(msg'.Body[1])) IN
        IF new.groups = groups.groups
        THEN currentState' = "Listen" /\ conn' = conn /\ groups' = groups
        ELSE currentState' = "CreateWebsockets" /\ groupUpdate' = new]_vars
  /\ [][currentState = "CreateWebsockets" /\ currentState' # currentState =>
        currentState' = "Listen" /\ groups' = groupUpdate]_vars

\* C14: a websocket that closes while the loop is in Listen, with or
\* without an error reaching the App, takes the loop back to Searching.
C14_CloseLeadsToSearching ==
  \A id \in Ids :
    (currentState = "Listen" /\ conn[id] = "closed") ~> (currentState = "Searching")

\* The handled message got past the early returns of handleResponse
Routed == Handled /\ pubs' # <<>>

IsPlayerTopic(topic) == Len(topic) = 4 /\ topic[2] = "player"

PublishedTopics(ps) == {ps[i].topic : i \in 1..Len(ps)}

C20_FanOutPublishesMembersOnly ==
  [][Routed /\ config.FanOut /\ msg'.GroupId # "" =>
       \E type \in {msg'.Type, SimpleType(msg'.Type)} :
         LET members == groups.groups[msg'.playerId].Players IN
         /\ PublishedTopics(pubs') = {PlayerTopic(id, type) : id \in members}
         /\ Len(pubs') = Cardinality(members)
         /\ \A i, j \in 1..Len(pubs') : pubs'[i].body = pubs'[j].body]_vars

RepeatedCleanup(i) ==
  /\ cleanup[i].players = cleanup[i - 1].players
  /\ cleanup[i].groups = cleanup[i - 1].groups
  /\ cleanup[i].at = cleanup[i - 1].at

\* C22: RemoveStaleTopics run twice in a row with the same missing players
\* and groups: the second run publishes nothing and leaves the cache as the
\* first run left it.
C22_CleanupIdempotent ==
  \A i \in 2..Len(cleanup) :
    RepeatedCleanup(i) =>
      /\ cleanup[i].cleared = {}
      /\ cleanup[i].cache = cleanup[i - 1].cache

C22_Witness ==
  /\ Len(cleanup) = 2
  /\ RepeatedCleanup(2)
  /\ cleanup[1].cleared # {}

\* A round of Searching ran over a window that held no device the code
\* accepts
EmptyRound ==
  /\ currentState = "Searching"
  /\ ~search.sleeping
  /\ search' # search
  /\ \A device \in search'.window : ~(device.hhidOk /\ device.infoOk)

\* C23: a discovery window without an acceptable candidate leaves the loop
\* in Searching, sleeping before the next round; the round and the wait
\* open no websocket, publish nothing and leave both models as they were,
\* and after the wait the loop is back at the start of a round.
C23_EmptyWindowRetries ==
  /\ [][EmptyRound \/ search.sleeping =>
          /\ currentState' = "Searching"
          /\ \A id \in Ids : conn'[id] = "open" => conn[id] = "open"
          /\ pubs' = <<>>
          /\ mqttCache' = mqttCache
          /\ groups' = groups
          /\ groupUpdate' = groupUpdate]_vars
  /\ [][EmptyRound => search'.sleeping]_vars
  /\ [][search.sleeping /\ search' # search => search' = NoSearch]_vars

C23_Witness ==
  /\ currentState = "Searching"
  /\ search.sleeping
  /\ search.window # {}
  /\ \A device \in search.window : ~Acceptable(device)
  /\ DOMAIN groups.groups # {}

\* C24: a player has at most one running websocket; a call of
\* InitWebsocketConnection goes on to create one only when none is stored,
\* and a stored websocket and its handler are never replaced by another,
\* also when calls run concurrently or race with OnClose.
C24_AtMostOneTransport ==
  /\ [](Cardinality({t \in DialIds : tstate[t] = "up"}) <= 1)
  /\ [][\A task \in Tasks :
          ipc[task] = "idle" /\ ipc'[task] = "dial" => websocket = NilWs]_vars
  /\ [][websocket # NilWs /\ websocket' # NilWs =>
          websocket' = websocket /\ eventHandler' = eventHandler]_vars

\* C25: getPlayerForNamespace returns not-found when id is a member of no
\* group; for a player-targeted namespace the named player with
\* /players/{playerId}; for any other namespace the coordinator of a group
\* that has the named player, with /groups/{id of that group}.
C25_ResolvePlayerForNamespace ==
  gpc = "resolved" =>
    IF \A c \in DOMAIN modelA.groups : lookup.id \notin modelA.groups[c].Players
    THEN lookup.result = NotFound
    ELSE IF lookup.namespace \in {"settings", "playerVolume"}
         THEN lookup.result = [player |-> lookup.id, path |-> <<"players", lookup.id>>]
         ELSE \E i \in 1..Len(respA.Groups) :
                /\ respA.Groups[i].CoordinatorId = lookup.result.player
                /\ lookup.id \in respA.Groups[i].PlayerIds
                /\ lookup.result.path = <<"groups", respA.Groups[i].Id>>

\* C26: OnMessage on a frame that did not parse invokes no callback and no
\* event handler, leaves the table and every timer as they are, and the
\* read goroutine goes back to reading on a websocket that is still up.
C26_UnparsableFrameDropped ==
  [][\A t \in TransportIds :
       (rpc[t] = "onmsg" /\ rframe[t] = ParseError /\ rpc'[t] # "onmsg") =>
         /\ invoked' = invoked
         /\ events' = events
         /\ cmdCallbackMap' = cmdCallbackMap
         /\ timer' = timer
         /\ wsState' = wsState
         /\ rpc'[t] = "read"]_vars

\* an unparsable frame is in OnMessage while a handler is installed and a
\* request is outstanding
C26_Witness ==
  \E t \in TransportIds :
    /\ rpc[t] = "onmsg"
    /\ rframe[t] = ParseError
    /\ rhandler[t] # NilHandler
    /\ wsState[t] = "up"
    /\ \E k \in CallIds : MapHas(cmdCallbackMap, ckey[k]) /\ timer[k] = "armed"

\* The step that takes the loop from CreateWebsockets to Listen
Connected == currentState = "CreateWebsockets" /\ currentState' = "Listen"

\* C27: when CreateWebsockets ends over a model with a coordinator,
\* groupsSource is a player of that model with an open websocket (the one
\* the groups namespace was subscribed on), and in Listen groupsSource
\* always names a player of the current model with an open websocket.
C27_GroupsSourceIsOpenPlayer ==
  /\ [][Connected /\ DOMAIN groups'.groups # {} =>
          /\ groupsSource' \in getPlayers(groups') \cup DOMAIN groups'.groups
          /\ conn'[groupsSource'] = "open"]_vars
  /\ [](currentState = "Listen" /\ DOMAIN groups.groups # {} =>
          /\ groupsSource \in getPlayers(groups) \cup DOMAIN groups.groups
          /\ conn[groupsSource] = "open")

\* C28: CreateWebsockets makes websockets for coordinators of the new model
\* only: when it ends, a player that is not a coordinator (a plain member
\* of a group, or a player outside the model) has none.
C28_TransportsToCoordinatorsOnly ==
  [][Connected =>
       \A id \in Ids \ DOMAIN groups'.groups : conn'[id] = "none"]_vars

\* C29: every groups event that parses is published, whether or not its
\* model differs from the current one, and is followed by the players
\* listing on {base}/players, built from the staged model if one is staged
\* and from the current model otherwise.
C29_GroupsEventPublished ==
  [][Handled /\ msg'.Type = "groups" /\ msg'.Response = "" /\ IsGroupsBody(msg'.Body) =>
       \E i, j \in 1..Len(pubs') :
         /\ i < j
         /\ pubs'[i].topic \in {HouseholdTopic("groups"), HouseholdTopic("groupsSimple")}
         /\ pubs'[i].body \in {msg'.Body, <<"simple">> \o msg'.Body}
         /\ pubs'[j].topic = HouseholdTopic("players")
         /\ pubs'[j].body \in PlayersJSON(IF groupUpdate' # NoModel THEN groupUpdate'
                                          ELSE groups)]_vars

\* C30: a message whose response header is "subscribe" is dropped: nothing
\* is published and the state, both models and the cache stay as they are.
C30_SubscribeAckDropped ==
  [][Handled /\ msg'.Response = "subscribe" =>
       /\ pubs' = <<>>
       /\ currentState' = currentState
       /\ groups' = groups
       /\ groupUpdate' = groupUpdate
       /\ mqttCache' = mqttCache
       /\ conn' = conn]_vars

\* an acknowledgement from a coordinator, of a type that is otherwise
\* published, was dropped
C30_Witness ==
  /\ currentState = "Listen"
  /\ msg.Response = "subscribe"
  /\ msg.Type = "extendedPlaybackStatus"
  /\ msg.playerId \in DOMAIN groups.groups
  /\ pubs = <<>>
  /\ mqttCache # EmptyMap

\* C31: a publish whose delivery failed leaves the cache as it was, and the
\* next request that routes the same payload to the same topic calls the
\* broker again.
C31_FailedPublishNotRecorded ==
  [][/\ (req'.n = req.n + 1 /\ ~req'.ok) => mqttCache' = mqttCache
     /\ (req'.n = req.n + 1 /\ ~req.ok /\ req.n > 0
           /\ req'.topic = req.topic /\ req'.body = req.body)
          => brokerCount'[req.topic] = brokerCount[req.topic] + 1]_vars

\* C32: with a configured household every candidate taken is of that
\* household; with none configured every candidate taken, in the first
\* round and in all later rounds, is of the household of the first one.
C32_HouseholdFilter ==
  /\ hhConfig # "" => \A i \in 1..Len(accepted) : accepted[i] = hhConfig
  /\ hhConfig = "" => \A i \in 1..Len(accepted) : accepted[i] = accepted[1]

\* the responses of the last scan from which a player with an identity
\* can be built: hhid and info records present, household accepted, /info
\* fetched and parsed
Usable(i) ==
  /\ scanned.scan[i].hhid # NoHhid
  /\ (hhConfig = "" \/ scanned.scan[i].hhid = hhConfig)
  /\ scanned.scan[i].info = "ok"

\* C33: the player that /groups is fetched with is built from the first
\* usable response of the scan and has its identity fields, and a round
\* that had a usable response never sleeps without having tried it.
C33_BootstrapIsFirstUsable ==
  /\ scanned.fetched =>
       /\ Usable(scanned.index)
       /\ \A j \in 1..(scanned.index - 1) : ~Usable(j)
       /\ scanned.player.PlayerId # ""
       /\ scanned.player.householdId # ""
       /\ scanned.player.restUrl # ""
  /\ (scanned.slept /\ \E j \in 1..Len(scanned.scan) : Usable(j)) => scanned.fetched

\* C34: handleResponse is given the events of one player in the order its
\* reader read them, however the readers of other players interleave.
C34_PerTransportOrder ==
  \A i \in 1..Len(handledLog), j \in 1..Len(handledLog) :
    (i < j /\ handledLog[i].playerId = handledLog[j].playerId)
      => handledLog[i].frame < handledLog[j].frame

C34_Witness ==
  /\ Len(handledLog) = 3
  /\ handledLog[1].playerId = handledLog[3].playerId
  /\ handledLog[2].playerId # handledLog[1].playerId
  /\ handledLog[1].frame < handledLog[3].frame

\* C35: app.groups changes only in the assignment made with groupsLock held
\* for writing and no reader inside; a map that app.groups has pointed to
\* keeps the content it had then; and what a web interface call copied is
\* part of, and at its end the whole of, the model that app.groups pointed
\* to when the call took the read lock.
C35_AtomicSwapAndSnapshots ==
  /\ [][groupsRef' # groupsRef =>
          /\ swapPc = "locked"
          /\ groupsLock.writer /\ groupsLock.readers = {}
          /\ \A task \in Tasks : qpc[task] # "range"]_vars
  /\ [](\A o \in DOMAIN publishedMaps : heap[o] = publishedMaps[o])
  /\ [](\A task \in Tasks :
          qpc[task] # "idle" =>
            /\ qref[task] \in DOMAIN publishedMaps
            /\ \A id \in DOMAIN qseen[task] :
                 /\ id \in DOMAIN publishedMaps[qref[task]].groups
                 /\ qseen[task][id] = publishedMaps[qref[task]].groups[id]
            /\ qpc[task] = "done" =>
                 qseen[task] = publishedMaps[qref[task]].groups)

\* a call returned the whole previous model after the swap to another one
C35_Witness ==
  \E task \in Tasks :
    /\ qpc[task] = "done"
    /\ qref[task] # groupsRef
    /\ qseen[task] # <<>>
    /\ heap[groupsRef] # heap[qref[task]]
    /\ Cardinality(DOMAIN publishedMaps) = 3

\* C36: a callback is called with the player's mutex released by the path
\* that calls it, and the call it makes into the same player returns.
C36_CallbackReentryReturns ==
  /\ [](\A s \in Senders :
          (origin[s] \in {"timeout", "response", "close"} /\ spc[s] = "enter")
            => pmu.writer # s /\ s \notin pmu.readers)
  /\ \A s \in Senders :
       (origin[s] \in {"timeout", "response", "close"} /\ spc[s] = "enter")
         ~> Returned(s)

\* C40: a SendMessage call returns, having handed the message to the write
\* goroutine or with the not-running error; it never sends on the closed
\* sendChan; and the read goroutine that waits for the running lock gets
\* it, marks the websocket stopped and delivers OnClose.
C40_SendMessageTerminates ==
  /\ [](\A s \in Senders : spc[s] = "sending" => ~chanClosed)
  /\ \A s \in Senders : (spc[s] = "sendMessage") ~> Returned(s)
  /\ (rgo = "lockwait") ~> (~running /\ rgo \in {"onclose", "done"})

\* C37: of an old and a new model, the groups reported missing are the
\* coordinator ids of the old groups that the new model lacks or has under
\* another group id, the players reported missing are the members of old
\* groups that are members of no new group, and the cleanup prefixes are
\* {base}/group/{id} and {base}/player/{id} of these ids.
C37_MissingIdentifiers ==
  gpc = "reported" =>
    /\ staleIds.groups =
         {c \in DOMAIN modelA.groups :
            \/ c \notin DOMAIN modelB.groups
            \/ GroupIdOf(modelB, c) # GroupIdOf(modelA, c)}
    /\ staleIds.players =
         {id \in getPlayers(modelA) :
            \A c \in DOMAIN modelB.groups : id \notin modelB.groups[c].Players}
    /\ staleIds.prefixes =
         {<<BaseTopic, "group", id>> : id \in staleIds.groups} \cup
         {<<BaseTopic, "player", id>> : id \in staleIds.players}

\* The timer of call k has fired and its goroutine is about to look the
\* entry up, while OnMessage on transport t is about to look up the
\* response to the same request; the entry is still in the table.
Racing(k, t) ==
  /\ tpc[k] = "expired"
  /\ rpc[t] = "onmsg"
  /\ rframe[t].CmdId = ckey[k]
  /\ MapHas(cmdCallbackMap, ckey[k])

\* C39: when the response to a request and the expiry of its timer race,
\* the path that takes the lock first removes the entry and invokes the
\* callback (with the response or with the timeout failure), the other
\* path then finds no entry and invokes nothing: the callback never gets
\* both, is never left without either, and the entry is gone.
C39_ExactlyOneWins ==
  /\ [][\A k \in CallIds, t \in TransportIds :
          (Racing(k, t) /\ tpc'[k] # "expired") =>
            /\ tpc'[k] = "callback" /\ tcb'[k] = k
            /\ ~MapHas(cmdCallbackMap', ckey[k])
            /\ rpc'[t] = "onmsg"
            /\ invoked' = invoked]_vars
  /\ [][\A k \in CallIds, t \in TransportIds :
          (Racing(k, t) /\ rpc'[t] # "onmsg") =>
            /\ rpc'[t] = "callback" /\ rcb'[t] = k
            /\ ~MapHas(cmdCallbackMap', ckey[k])
            /\ tpc'[k] = "expired"
            /\ invoked' = invoked]_vars
  /\ [][\A k \in CallIds, t \in TransportIds :
          /\ (tpc[k] = "callback" /\ rpc[t] = "onmsg" /\ rframe[t].CmdId = ckey[k]
                /\ rpc'[t] # "onmsg")
               => (rpc'[t] = "read" /\ invoked' = invoked)
          /\ (tpc[k] = "expired" /\ rpc[t] = "callback" /\ rcb[t] = k
                /\ tpc'[k] # "expired")
               => (tpc'[k] = "done" /\ invoked' = invoked)
          /\ (tpc[k] = "callback" /\ tpc'[k] # "callback")
               => invoked'[k] = Append(invoked[k], TimeoutResponse)
          /\ (rpc[t] = "callback" /\ rcb[t] = k /\ rpc'[t] # "callback")
               => invoked'[k] = Append(invoked[k], rframe[t])]_vars
  /\ [](\A k \in CallIds :
          /\ Invocations(k, "response") + Invocations(k, "timeout") <= 1
          /\ ~(tpc[k] = "callback" /\ \E t \in TransportIds : rpc[t] = "callback" /\ rcb[t] = k))

\* the response won the race: its callback is about to be called while the
\* timer goroutine has still to find that the entry is gone
C39_Witness ==
  \E k \in CallIds, t \in TransportIds :
    /\ tpc[k] = "expired"
    /\ timer[k] = "fired"
    /\ rpc[t] = "callback" /\ rcb[t] = k
    /\ rframe[t].CmdId = ckey[k]
    /\ ~MapHas(cmdCallbackMap, ckey[k])

\* C38: the /api/v1/wstest handler always completes: an immediate failure
\* of CommandOverWebsocket is written as the error; otherwise the callback
\* is eventually invoked, its response reaches the handler and exactly one
\* HTTP response is written; neither the handler nor the goroutine that
\* invokes the callback stays blocked.
C38_WstestCompletes ==
  /\ [](\A h \in Handlers : written[h] <= 1)
  /\ [][\A h \in Handlers :
          (hpc[h] = "called" /\ hpc'[h] = "returned") => written'[h] = 1]_vars
  /\ \A h \in Handlers :
       /\ (hpc[h] = "called") ~> (hpc[h] = "returned" /\ written[h] = 1)
       /\ (cbpc[h] = "registered") ~> (cbpc[h] = "returned")

====
